---------------------------- MODULE Spec2Model ----------------------------
(***************************************************************************)
(* State-machine model of the ESP32 autonomous rover control core:         *)
(*   - MotorEncoder      (src/src/hardware/MotorEncoder.cpp)                *)
(*   - MotorController   (src/src/hardware/MotorController.cpp)             *)
(*   - SharedData        (src/src/core/SharedData.cpp)                      *)
(*   - NavigationTask    (src/src/tasks/NavigationTask.cpp)                 *)
(*   - ManualControlTask (src/src/tasks/ManualControlTask.cpp)              *)
(*   - WiFiTask mission handlers (src/src/tasks/WiFiTask.cpp)               *)
(*   - TOFTask           (src/src/tasks/TOFTask.cpp)                        *)
(*                                                                         *)
(* Each C++ object is one record-valued variable whose fields carry the    *)
(* member names of the class.  Every method is an operator from the object *)
(* (and its arguments) to the object after the call, so that a handler     *)
(* that calls several methods is the composition of their operators.       *)
(*                                                                         *)
(* Numbers.  The firmware computes the wheel PID in single-precision       *)
(* floats.  The model computes the same expressions in exact fixed point:  *)
(*   targetSpeed  is kept in units of maxCountsPerInterval/255 counts,     *)
(*                i.e. as the (signed) command it was derived from;        *)
(*   errorSum     is kept in units of 1/255 count;                         *)
(*   gains        are kept in hundredths (MOTOR_PID_KP = 2.0 is 200).      *)
(* Distances are kept in decimetres, obstacle ranges in millimetres, and   *)
(* angles in whole degrees.                                                *)
(***************************************************************************)
EXTENDS Integers, Sequences, FiniteSets, TLC

VARIABLES
    now,            \* millis(): the millisecond clock, an unsigned word
    motor,          \* the global MotorController with its two MotorEncoders
    nav,            \* the NavigationTask object and the locals of run()
    manual,         \* the ManualControlTask object
    shared,         \* the SharedData store
    commandQueue,   \* ManualControlTask::commandQueue (FreeRTOS queue)
    tof,            \* the TOFTask object and the local of run()
    obs             \* observation record: what the last steps did (not program state)

vars == <<now, motor, nav, manual, shared, commandQueue, tof, obs>>

(***************************************************************************)
(* Bounds of the model (not program constants).                            *)
(***************************************************************************)
\* the clock stops advancing once it has run this many milliseconds
MaxTime == 40
\* encoder positions are explored within -MaxCount .. MaxCount
MaxCount == 1

(***************************************************************************)
(* Program constants.                                                      *)
(***************************************************************************)
\* The millisecond clock wraps at 2^32 in the firmware (unsigned long).  TLC's
\* integers are 32 bit signed, so the model keeps the clock in a narrower
\* unsigned word: every "0xFFFFFFFF" of the code is ClockModulus - 1 here.
ClockModulus == 65536
MOTOR_PID_INTERVAL_MS == 20
\* gains in hundredths
MOTOR_PID_KP == 200
MOTOR_PID_KI == 10
MOTOR_PID_KD == 5
\* (MOTOR_MAX_RPM / 60) * LEFT_MOTOR_ENCODER_CPR * (MOTOR_PID_INTERVAL_MS / 1000)
\*   = (120 / 60) * 4200 * 0.020
maxCountsPerInterval == 168
\* the PWM range of the 8 bit LEDC channels and of the speed commands
PWM_MAX == 255
\* minimum PWM of the dead zone
DEAD_ZONE_PWM == 40
\* stall detection thresholds
STALL_PWM == 50
STALL_SPEED == 2
STALL_MS == 500
\* numerator of the anti-windup limit  maxIntegral = 128.0f / ki
INTEGRAL_LIMIT == 128
\* vTaskDelay at the end of one NavigationTask::run iteration
NAV_LOOP_DELAY_MS == 10

Sides == {"L", "R"}

(***************************************************************************)
(* Arithmetic helpers of the C++ runtime.                                  *)
(***************************************************************************)
Abs(x) == IF x < 0 THEN -x ELSE x

constrain(x, lo, hi) == IF x < lo THEN lo ELSE IF x > hi THEN hi ELSE x

\* (int) of a float given as the fraction n/d, d > 0: truncation toward zero
TruncDiv(n, d) == IF n >= 0 THEN n \div d ELSE -((-n) \div d)

\* unsigned subtraction a - b in the width of the clock
USub(a, b) == (a - b) % ClockModulus

(***************************************************************************)
(* MotorEncoder                                                            *)
(***************************************************************************)
\* a table that counts the skipped change 00 -> 11 as a forward step
QUADRATURE_LUT_CountingSkipped ==
    <<  0, -1,  1,  1,
        1,  0,  0, -1,
       -1,  0,  0,  1,
        0,  1, -1,  0 >>

\* QUADRATURE_LUT[(prevState << 2) | currState], state = (A << 1) | B
QUADRATURE_LUT ==
    <<  0, -1,  1,  0,
        1,  0,  0, -1,
       -1,  0,  0,  1,
        0,  1, -1,  0 >>

\* MotorEncoder::MotorEncoder
NewEncoder(reverse_dir) ==
    [ reverse           |-> reverse_dir,
      position          |-> 0,
      lastState         |-> 0,
      lastSpeedPosition |-> 0 ]

\* MotorEncoder::begin with the pins reading pinState
EncoderBegin(e, pinState) == [e EXCEPT !.lastState = pinState]

\* the direction handleInterrupt adds for a change lastState -> currState
LutDirection(lastState, currState) == QUADRATURE_LUT[(lastState * 4 + currState) + 1]

\* MotorEncoder::handleInterrupt with the pins reading currState
handleInterrupt(e, currState) ==
    IF currState = e.lastState
    THEN e
    ELSE LET direction == LutDirection(e.lastState, currState)
             signed    == IF e.reverse THEN -direction ELSE direction
         IN  [e EXCEPT !.position = e.position + signed,
                       !.lastState = currState]

\* MotorEncoder::getPosition
getPosition(e) == e.position

\* a getPositionDelta that returns the delta and leaves the baseline where it was
getPositionDelta_BaselineKept(e) ==
    [ delta |-> e.position - e.lastSpeedPosition,
      enc   |-> e ]

\* MotorEncoder::getPositionDelta: the value returned and the encoder afterwards
getPositionDelta(e) ==
    [ delta |-> e.position - e.lastSpeedPosition,
      enc   |-> [e EXCEPT !.lastSpeedPosition = e.position] ]

\* MotorEncoder::getSpeed / getRPM: the encoder afterwards (the baseline moves)
getSpeed(e) == [e EXCEPT !.lastSpeedPosition = e.position]

\* MotorEncoder::reset
EncoderReset(e) == [e EXCEPT !.position = 0, !.lastSpeedPosition = 0]

(***************************************************************************)
(* MotorController                                                         *)
(***************************************************************************)
\* PIDState as the constructor fills it
NewPID ==
    [ targetSpeed  |-> 0,     \* units of maxCountsPerInterval/255 counts
      currentSpeed |-> 0,     \* counts per interval
      errorSum     |-> 0,     \* units of 1/255 count
      currentPWM   |-> 0,
      lastTime     |-> 0 ]

NewStall == [ stallStart |-> 0, stallWarned |-> FALSE ]

\* MotorController::MotorController
NewMotorController ==
    [ isInitialized   |-> FALSE,
      pidEnabled      |-> FALSE,
      motorsStopped   |-> FALSE,
      \* the gains, in hundredths
      kp              |-> MOTOR_PID_KP,
      ki              |-> MOTOR_PID_KI,
      kd              |-> MOTOR_PID_KD,
      leftMotorSpeed  |-> 0,
      rightMotorSpeed |-> 0,
      pidLeft         |-> NewPID,
      pidRight        |-> NewPID,
      leftEncoder     |-> NewEncoder(TRUE),
      rightEncoder    |-> NewEncoder(FALSE),
      leftStall       |-> NewStall,
      rightStall      |-> NewStall,
      \* the hardware: LEDC duty and H-bridge inputs <<IN1, IN2>> of each side
      ledcLeft        |-> 0,
      ledcRight       |-> 0,
      pinsLeft        |-> "LL",
      pinsRight       |-> "LL" ]

\* setLeftMotorDirection / setRightMotorDirection
DirectionPins(forward) == IF forward THEN "HL" ELSE "LH"

\* MotorController::stopMotors
stopMotors(m) ==
    IF ~m.isInitialized
    THEN m
    ELSE [m EXCEPT !.motorsStopped = TRUE,
                   !.pidLeft.targetSpeed = 0,
                   !.pidRight.targetSpeed = 0,
                   !.pidLeft.errorSum = 0,
                   !.pidRight.errorSum = 0,
                   !.pidLeft.currentPWM = 0,
                   !.pidRight.currentPWM = 0,
                   !.pinsLeft = "LL",
                   !.pinsRight = "LL",
                   !.ledcLeft = 0,
                   !.ledcRight = 0,
                   !.leftMotorSpeed = 0,
                   !.rightMotorSpeed = 0]

\* MotorController::setLeftMotorSpeed
setLeftMotorSpeed(m, speedArg) ==
    IF ~m.isInitialized
    THEN m
    ELSE LET speed == -constrain(speedArg, -PWM_MAX, PWM_MAX)
         IN  IF speed > 0
             THEN [m EXCEPT !.pinsLeft = DirectionPins(TRUE),
                            !.ledcLeft = speed,
                            !.leftMotorSpeed = speed]
             ELSE IF speed < 0
             THEN [m EXCEPT !.pinsLeft = DirectionPins(FALSE),
                            !.ledcLeft = -speed,
                            !.leftMotorSpeed = speed]
             ELSE [m EXCEPT !.ledcLeft = 0,
                            !.leftMotorSpeed = speed]

\* MotorController::setRightMotorSpeed
setRightMotorSpeed(m, speedArg) ==
    IF ~m.isInitialized
    THEN m
    ELSE LET speed == constrain(speedArg, -PWM_MAX, PWM_MAX)
         IN  IF m.pidEnabled
             THEN [m EXCEPT !.pidRight.targetSpeed = speed]
             ELSE IF speed > 0
             THEN [m EXCEPT !.rightMotorSpeed = Abs(speed),
                            !.pinsRight = DirectionPins(TRUE),
                            !.ledcRight = Abs(speed)]
             ELSE IF speed < 0
             THEN [m EXCEPT !.rightMotorSpeed = Abs(speed),
                            !.pinsRight = DirectionPins(FALSE),
                            !.ledcRight = Abs(speed)]
             ELSE [m EXCEPT !.rightMotorSpeed = 0,
                            !.pinsRight = "LL",
                            !.ledcRight = 0]

\* setMotorSpeeds leaving the stop-lock as it finds it
StopLockAfterCommand_Kept(stopped, leftSpeed, rightSpeed) == stopped

\* setMotorSpeeds releasing the stop-lock on every call, the way a command
\* path without the non-zero test would
StopLockAfterCommand_AlwaysReleased(stopped, leftSpeed, rightSpeed) == FALSE

\* the stop-lock after setMotorSpeeds has looked at its clamped inputs
StopLockAfterCommand(stopped, leftSpeed, rightSpeed) ==
    IF leftSpeed # 0 \/ rightSpeed # 0 THEN FALSE ELSE stopped

\* MotorController::setMotorSpeeds
setMotorSpeeds(m, leftArg, rightArg) ==
    IF ~m.isInitialized
    THEN m
    ELSE LET leftSpeed  == constrain(leftArg, -PWM_MAX, PWM_MAX)
             rightSpeed == constrain(rightArg, -PWM_MAX, PWM_MAX)
             m1 == [m EXCEPT !.motorsStopped =
                        StopLockAfterCommand(m.motorsStopped, leftSpeed, rightSpeed)]
         IN  IF m1.pidEnabled
             THEN [m1 EXCEPT !.pidLeft.targetSpeed = -leftSpeed,
                             !.pidRight.targetSpeed = rightSpeed]
             ELSE setRightMotorSpeed(setLeftMotorSpeed(m1, leftSpeed), rightSpeed)

\* stall bookkeeping that keeps its timer and flag when the wheel moves again
StallUpdate_NeverCleared(st, currentPWM, measuredSpeed, t) ==
    IF st.stallStart = 0
    THEN IF Abs(currentPWM) > STALL_PWM /\ Abs(measuredSpeed) < STALL_SPEED
         THEN [st EXCEPT !.stallStart = t]
         ELSE st
    ELSE IF USub(t, st.stallStart) > STALL_MS /\ ~st.stallWarned
    THEN [st EXCEPT !.stallWarned = TRUE]
    ELSE st

\* the stall bookkeeping of updatePID (function-local statics, one pair per wheel)
StallUpdate(st, currentPWM, measuredSpeed, t) ==
    IF Abs(currentPWM) > STALL_PWM /\ Abs(measuredSpeed) < STALL_SPEED
    THEN IF st.stallStart = 0
         THEN [st EXCEPT !.stallStart = t]
         ELSE IF USub(t, st.stallStart) > STALL_MS /\ ~st.stallWarned
         THEN [st EXCEPT !.stallWarned = TRUE]
         ELSE st
    ELSE [stallStart |-> 0, stallWarned |-> FALSE]

\* the elapsed time as a signed difference of the two clock readings
ElapsedMs_Signed(t, lastTime) == t - lastTime

\* the elapsed time of a loop that runs the PID on every call, whatever the
\* clock reads
ElapsedMs_EveryCall(t, lastTime) == MOTOR_PID_INTERVAL_MS

\* the elapsed time updatePID computes from millis() and state.lastTime
ElapsedMs(t, lastTime) ==
    IF t >= lastTime
    THEN t - lastTime
    ELSE ((ClockModulus - 1) - lastTime) + t + 1

\* the PID sum of updatePID as an int clamped to the PWM range, from target,
\* accumulated error and measurement; all terms are brought to the common
\* denominator 255 * 100
ClampedPidOutput(k, targetSpeed, errorSum, measuredSpeed, prevMeasuredSpeed) ==
    LET error255    == targetSpeed * maxCountsPerInterval - 255 * measuredSpeed
        feedforward == IF targetSpeed # 0 THEN 200 * 100 * targetSpeed ELSE 0
        pTerm       == k.kp * error255
        iTerm       == k.ki * errorSum
        dTerm       == -(k.kd * 255 * (measuredSpeed - prevMeasuredSpeed))
        output      == feedforward + pTerm + iTerm + dTerm
    IN  constrain(TruncDiv(output, 255 * 100), -PWM_MAX, PWM_MAX)

\* a dead zone that keeps the direction of the PID sum
DeadZone_SignOfOutput(targetSpeed, pwm) ==
    IF targetSpeed # 0 /\ Abs(pwm) < DEAD_ZONE_PWM
    THEN (IF pwm >= 0 THEN 1 ELSE -1) * DEAD_ZONE_PWM
    ELSE pwm

\* the dead zone of updatePID: the minimum PWM in the direction of the target
DeadZone(targetSpeed, pwm) ==
    IF targetSpeed # 0 /\ Abs(pwm) < DEAD_ZONE_PWM
    THEN (IF targetSpeed > 0 THEN 1 ELSE -1) * DEAD_ZONE_PWM
    ELSE pwm

\* the PWM updatePID computes
PidPWM(k, targetSpeed, errorSum, measuredSpeed, prevMeasuredSpeed) ==
    DeadZone(targetSpeed,
             ClampedPidOutput(k, targetSpeed, errorSum, measuredSpeed,
                              prevMeasuredSpeed))

\* the gains kp, ki, kd of a controller
Gains(m) == [ kp |-> m.kp, ki |-> m.ki, kd |-> m.kd ]

\* the accumulator after adding this interval's error with no anti-windup
IntegrateError_Unclamped(ki, errorSum, targetSpeed, measuredSpeed) ==
    errorSum + (targetSpeed * maxCountsPerInterval - 255 * measuredSpeed)

\* the integral accumulator after adding this interval's error, with the
\* anti-windup limit maxIntegral = 128.0f / ki (infinite for ki = 0, when
\* constrain leaves the sum as it is)
IntegrateError(ki, errorSum, targetSpeed, measuredSpeed) ==
    LET error255 == targetSpeed * maxCountsPerInterval - 255 * measuredSpeed
    IN  IF ki = 0
        THEN errorSum + error255
        ELSE LET maxIntegral == (INTEGRAL_LIMIT * 100 * 255) \div ki
             IN  constrain(errorSum + error255, -maxIntegral, maxIntegral)

\* MotorController::updatePID at time t: the PID state, encoder and stall
\* bookkeeping afterwards, and the PWM handed back
updatePID(k, state, encoder, st, t) ==
    IF ElapsedMs(t, state.lastTime) < MOTOR_PID_INTERVAL_MS
    THEN [ pid |-> state, enc |-> encoder, stall |-> st,
           pwmOutput |-> state.currentPWM ]
    ELSE LET rd            == getPositionDelta(encoder)
             measuredSpeed == rd.delta
             errorSum      == IntegrateError(k.ki, state.errorSum, state.targetSpeed,
                                             measuredSpeed)
             pwm           == PidPWM(k, state.targetSpeed, errorSum, measuredSpeed,
                                     state.currentSpeed)
         IN  [ pid   |-> [state EXCEPT !.currentSpeed = measuredSpeed,
                                       !.errorSum = errorSum,
                                       !.lastTime = t,
                                       !.currentPWM = pwm],
               enc   |-> rd.enc,
               stall |-> StallUpdate(st, state.currentPWM, measuredSpeed, t),
               pwmOutput |-> pwm ]

\* update() without the stop-lock test
UpdateSkipped_NoStopLock(m) == ~m.isInitialized \/ ~m.pidEnabled

\* whether MotorController::update returns before running the wheel PIDs
UpdateSkipped(m) == ~m.isInitialized \/ ~m.pidEnabled \/ m.motorsStopped

\* MotorController::update, the millis() of its first updatePID call reading
\* tLeft and that of its second reading tRight
updateAt(m, tLeft, tRight) ==
    IF UpdateSkipped(m)
    THEN m
    ELSE LET l == updatePID(Gains(m), m.pidLeft, m.leftEncoder, m.leftStall, tLeft)
             r == updatePID(Gains(m), m.pidRight, m.rightEncoder, m.rightStall, tRight)
         IN  [m EXCEPT !.pidLeft = l.pid,
                       !.leftEncoder = l.enc,
                       !.leftStall = l.stall,
                       !.pidRight = r.pid,
                       !.rightEncoder = r.enc,
                       !.rightStall = r.stall,
                       !.pinsLeft = DirectionPins(l.pwmOutput >= 0),
                       !.ledcLeft = Abs(l.pwmOutput),
                       !.pinsRight = DirectionPins(r.pwmOutput >= 0),
                       !.ledcRight = Abs(r.pwmOutput),
                       !.leftMotorSpeed = Abs(l.pwmOutput),
                       !.rightMotorSpeed = Abs(r.pwmOutput)]

\* MotorController::update with both calls within one millisecond, at time t
update(m, t) == updateAt(m, t, t)

\* MotorController::setPIDTunings
setPIDTunings(m, p, i, d) == [m EXCEPT !.kp = p, !.ki = i, !.kd = d]

\* MotorController::enablePID
enablePID(m, enable) ==
    LET m1 == [m EXCEPT !.pidEnabled = enable]
    IN  IF ~enable
        THEN stopMotors(m1)
        ELSE [m1 EXCEPT !.pidLeft.errorSum = 0,
                        !.pidLeft.currentPWM = 0,
                        !.pidRight.errorSum = 0,
                        !.pidRight.currentPWM = 0,
                        !.leftEncoder = getPositionDelta(m.leftEncoder).enc,
                        !.rightEncoder = getPositionDelta(m.rightEncoder).enc]

\* MotorController::initialize with the encoder pins reading pinL and pinR
initialize(m, pinL, pinR) ==
    IF m.isInitialized
    THEN m
    ELSE LET m1 == [m EXCEPT !.leftEncoder = EncoderBegin(NewEncoder(TRUE), pinL),
                             !.rightEncoder = EncoderBegin(NewEncoder(FALSE), pinR)]
             m2 == stopMotors(m1)
             m3 == [m2 EXCEPT !.isInitialized = TRUE, !.motorsStopped = FALSE]
         IN  enablePID(m3, TRUE)


(***************************************************************************)
(* Observation.  obs records which operation the last step performed and   *)
(* whether the operation before it was stopMotors, and for the encoder     *)
(* specification the kind of the last channel change and the net count of  *)
(* single-step changes per side; it is written by the actions and read by  *)
(* none, except that its count of accessor calls, its record of the clock  *)
(* wrap and its list of waypoints added bound how far the model explores.  *)
(***************************************************************************)
NewObs ==
    [ lastOp    |-> "construct",
      afterStop |-> FALSE,
      \* a non-zero speed command came while the stop-lock was engaged, and
      \* no stopMotors since
      released  |-> FALSE,
      lastEdge  |-> "none",
      netCount  |-> [side \in Sides |-> 0],
      iteration |-> [ obstacle |-> FALSE, wasMoving |-> FALSE,
                      wasDirection |-> "", stopCalled |-> FALSE,
                      timedOut |-> FALSE, guided |-> FALSE,
                      finalReached |-> FALSE, missionWas |-> "MISSION_IDLE" ],
      obstacleStopped |-> FALSE,
      uploaded        |-> 0,
      \* getPositionDelta per side: the sum of the values returned, the value
      \* last returned, whether a channel change came since the last call, and
      \* whether the last call came with no channel change since the one before
      deltaSum   |-> [side \in Sides |-> 0],
      lastDelta  |-> [side \in Sides |-> 0],
      edgeSince  |-> [side \in Sides |-> FALSE],
      repeatCall |-> [side \in Sides |-> FALSE],
      \* GPSPosition::timestamp and IMUData::timestamp of the samples in the
      \* store: the sources write them and no code reads them
      sampleTime |-> [ position |-> 0, orientation |-> 0 ],
      \* a SharedData read the last guidance tick made timed out on its lock
      readFailed |-> FALSE,
      \* the SharedData accessor call that returned last and what it returned
      lastCall   |-> [ accessor |-> "none", result |-> "none", timedOut |-> FALSE ],
      \* accessor calls made so far
      calls      |-> 0,
      \* the mission payload handled last held a waypoint without lat/lon
      malformed  |-> FALSE,
      \* the millisecond clock has wrapped
      wrapped    |-> FALSE,
      \* an angle handed to normalizeAngle, what came back, and what came
      \* back for that
      angle      |-> [ input |-> 0, applied |-> FALSE, result |-> 0, again |-> 0 ],
      \* the latitudes handed to addWaypoint since the last clearWaypoints
      added      |-> <<>> ]

Observe(op) == [obs EXCEPT !.lastOp = op,
                           !.afterStop = (obs.lastOp = "stopMotors"),
                           !.released =
                               IF op = "setMotorSpeeds" /\ motor.motorsStopped THEN TRUE
                               ELSE IF op = "stopMotors" THEN FALSE
                               ELSE @]

(***************************************************************************)
(* Placeholders of the objects the drive specification leaves untouched.   *)
(***************************************************************************)
OthersUnchangedByDrive == UNCHANGED <<nav, manual, shared, commandQueue, tof>>

(***************************************************************************)
(* Drive specification: the closed-loop MotorController and its encoders   *)
(* under every sequence of initialize, setMotorSpeeds, stopMotors and      *)
(* update calls, encoder edges and clock ticks.                            *)
(***************************************************************************)
\* speed commands <<left, right>> tried: stop, a slow straight run, and a turn
\* with one input beyond the range
SpeedCommands == { <<0, 0>>, <<30, 30>>, <<-100, 300>> }

PinStates == 0 .. 3

\* what the encoder pins read when begin() samples them in the drive
\* specification: both channels high (the inputs are pulled up)
IdlePins == {3}

\* the clock advances by one navigation-loop delay
Tick ==
    /\ now < MaxTime
    /\ now' = (now + NAV_LOOP_DELAY_MS) % ClockModulus
    /\ UNCHANGED <<motor, obs>>
    /\ OthersUnchangedByDrive

EncoderOf(m, side) == IF side = "L" THEN m.leftEncoder ELSE m.rightEncoder

\* encoderISR0 / encoderISR1: the interrupt of one encoder runs handleInterrupt
\* with the pins reading currState; positions stay within -limit .. limit
EncoderISR(side, currState, limit) ==
    LET e2 == handleInterrupt(EncoderOf(motor, side), currState)
    IN  /\ motor.isInitialized
        /\ Abs(e2.position) <= limit
        /\ motor' = IF side = "L"
                    THEN [motor EXCEPT !.leftEncoder = e2]
                    ELSE [motor EXCEPT !.rightEncoder = e2]

\* an edge interrupt of one encoder, the pins reading a changed state
EncoderInterrupt ==
    \E side \in Sides, currState \in PinStates :
        /\ currState # EncoderOf(motor, side).lastState
        /\ EncoderISR(side, currState, MaxCount)
        /\ UNCHANGED <<now, obs>>
        /\ OthersUnchangedByDrive

\* a task's initialize() calling motorController.initialize(), begin() of the
\* two encoders sampling pins in pinSet
InitializeMotors(pinSet) ==
    \E pinL \in pinSet, pinR \in pinSet :
        /\ ~motor.isInitialized
        /\ motor' = initialize(motor, pinL, pinR)
        /\ obs' = Observe("initialize")
        /\ UNCHANGED now
        /\ OthersUnchangedByDrive

MCInitialize == InitializeMotors(IdlePins)

MCSetMotorSpeeds ==
    \E c \in SpeedCommands :
        /\ motor' = setMotorSpeeds(motor, c[1], c[2])
        /\ obs' = Observe(IF c[1] = 0 /\ c[2] = 0 THEN "setMotorSpeeds0" ELSE "setMotorSpeeds")
        /\ UNCHANGED now
        /\ OthersUnchangedByDrive

MCStopMotors ==
    /\ motor' = stopMotors(motor)
    /\ obs' = Observe("stopMotors")
    /\ UNCHANGED now
    /\ OthersUnchangedByDrive

MCUpdate ==
    /\ motor' = update(motor, now)
    /\ obs' = Observe("update")
    /\ UNCHANGED now
    /\ OthersUnchangedByDrive


(***************************************************************************)
(* Objects as their constructors leave them.                               *)
(***************************************************************************)
MAX_WAYPOINTS == 10
BASE_SPEED == 100
MANUAL_CMD_QUEUE_SIZE == 4
\* ManualControlTask::commandTimeout and updateInterval, milliseconds
commandTimeout == 150
updateInterval == 20
\* NavigationTask::navigationUpdateInterval and the pidInterval of run()
navigationUpdateInterval == 100
pidInterval == 20
\* RoverState::frontObstacleDistance starts at -1.0 cm; the model keeps millimetres
NO_RANGE_MM == -10

\* Waypoint::Waypoint()
DefaultWaypoint == [ latitude |-> 0, isValid |-> FALSE ]

\* Waypoint::Waypoint(lat, lon), on the meridian the model explores
ValidWaypoint(lat) == [ latitude |-> lat, isValid |-> TRUE ]

\* RoverState::RoverState
NewRoverState ==
    [ isNavigating          |-> FALSE,
      currentWaypointIndex  |-> 0,
      totalWaypoints        |-> 0,
      currentSpeed          |-> 0,
      missionState          |-> "MISSION_IDLE",
      frontObstacleDistance |-> NO_RANGE_MM ]

\* SharedData::SharedData followed by SharedData::initialize
NewSharedData ==
    [ currentPosition |-> [ latitude |-> 0, isValid |-> FALSE ],
      currentIMUData  |-> [ heading |-> 0, isValid |-> FALSE ],
      waypoints       |-> [i \in 0 .. (MAX_WAYPOINTS - 1) |-> DefaultWaypoint],
      roverState      |-> NewRoverState,
      manualControl   |-> [ manualModeActive |-> FALSE, manualMoving |-> FALSE,
                            manualDirection |-> "", manualSpeed |-> 0 ],
      missionId       |-> "",
      missionParams   |-> "default",
      \* the mutexes: whether another task holds each one, and the accessor
      \* call that is blocked in xSemaphoreTake (one caller is followed)
      mutexHeld       |-> [ positionMutex |-> FALSE, imuMutex |-> FALSE,
                            waypointsMutex |-> FALSE, stateMutex |-> FALSE,
                            missionMutex |-> FALSE ],
      blocked         |-> [ accessor |-> "none", since |-> 0 ] ]

\* NavigationTask::NavigationTask, with lastPIDUpdate of run()
\* no call of MotorController::update() in progress
NoUpdateCall == [ pc |-> "idle", leftPWM |-> 0, rightPWM |-> 0 ]

NewNavigationTask ==
    [ isNavigating         |-> FALSE,
      currentWaypointIndex |-> 0,
      pidIntegral          |-> 0,
      pidLastError         |-> 0,
      targetLatitude       |-> 0,
      leftMotorSpeed       |-> 0,
      rightMotorSpeed      |-> 0,
      baseSpeed            |-> BASE_SPEED,
      lastUpdateTime       |-> 0,
      lastPIDUpdate        |-> 0,
      \* where navigationTaskFunction is: before initialize() or in run()
      pc                   |-> "created",
      \* the call of MotorController::update() in progress: where it is and
      \* its locals leftPWM and rightPWM
      updateCall           |-> NoUpdateCall ]

\* ManualControlTask::ManualControlTask; waitSince is the time at which the
\* xQueueReceive of run() that is in progress began, and pc is where
\* manualControlTaskFunction is, which the startup specification follows:
\* not yet in run(), in the loop of run(), or in an xQueueReceive that was
\* handed a null queue
NewManualControlTask ==
    [ isManualModeActive |-> FALSE,
      isMoving           |-> FALSE,
      currentDirection   |-> "",
      currentSpeed       |-> 0,
      lastCommandTime    |-> 0,
      waitSince          |-> 0,
      pc                 |-> "created" ]

\* TOFTask after initialize(); state is the RoverState local of run(), held
\* between its getRoverState and its setRoverState
NewTOFTask == [ pc |-> "idle", state |-> NewRoverState ]

\* the command queue before ManualControlTask::initialize creates it
NullQueue == [ created |-> FALSE, items |-> <<>> ]

Init ==
    /\ now = 0
    /\ motor = NewMotorController
    /\ nav = NewNavigationTask
    /\ manual = NewManualControlTask
    /\ shared = NewSharedData
    /\ commandQueue = NullQueue
    /\ tof = NewTOFTask
    /\ obs = NewObs

NextDrive ==
    \/ Tick
    \/ EncoderInterrupt
    \/ MCInitialize
    \/ MCSetMotorSpeeds
    \/ MCStopMotors
    \/ MCUpdate

SpecDrive == Init /\ [][NextDrive]_vars

OutputsZero(m) == m.ledcLeft = 0 /\ m.ledcRight = 0

\* the motor command the drive holds: wheel targets and the stop-lock
DriveCommand(m) == << m.pidLeft.targetSpeed, m.pidRight.targetSpeed, m.motorsStopped >>

\* a wheel PID of m would run (not reuse its output) in an update() at time t
PidDue(m, t) ==
    /\ ElapsedMs(t, m.pidLeft.lastTime) >= MOTOR_PID_INTERVAL_MS
    /\ ElapsedMs(t, m.pidRight.lastTime) >= MOTOR_PID_INTERVAL_MS

\* an encoder of m holds counts not yet consumed by getPositionDelta
DeltaPending(m) ==
    \/ m.leftEncoder.position # m.leftEncoder.lastSpeedPosition
    \/ m.rightEncoder.position # m.rightEncoder.lastSpeedPosition

(***************************************************************************)
(* C1: stopMotors() on an initialized controller followed immediately by   *)
(* one update() tick leaves the PWM output of both wheels at zero, for any *)
(* prior PID state.                                                        *)
(***************************************************************************)
C1_StopThenUpdateZero ==
    (motor.isInitialized /\ obs.afterStop /\ obs.lastOp = "update")
        => OutputsZero(motor)

\* stop then update happened with closed-loop control on, the wheel PIDs due,
\* the wheels still turning (an unconsumed encoder delta) and a measured
\* speed left over from before the stop
C1_Witness ==
    /\ motor.isInitialized /\ motor.pidEnabled
    /\ obs.afterStop /\ obs.lastOp = "update"
    /\ PidDue(motor, now)
    /\ DeltaPending(motor)
    /\ motor.pidLeft.currentSpeed # 0


(***************************************************************************)
(* C2: after stopMotors(), over any sequence of update() ticks and         *)
(* setMotorSpeeds(0,0) calls the stop-lock stays engaged and both PWM      *)
(* outputs stay zero; the lock is released and the outputs can become      *)
(* non-zero only by a setMotorSpeeds call with a non-zero input.           *)
(***************************************************************************)
C2_StopLockHolds ==
    /\ [](motor.isInitialized /\ obs.lastOp = "stopMotors"
            => motor.motorsStopped /\ OutputsZero(motor))
    /\ [][ (motor.isInitialized /\ motor.motorsStopped /\ OutputsZero(motor)
              /\ obs'.lastOp # "setMotorSpeeds")
           => (motor'.motorsStopped /\ OutputsZero(motor')) ]_vars

\* the lock was held through a setMotorSpeeds(0,0) and then an update() that
\* was due, with the wheels still turning
C2_Witness ==
    /\ motor.isInitialized /\ motor.pidEnabled /\ motor.motorsStopped
    /\ obs.lastOp = "update"
    /\ PidDue(motor, now)
    /\ DeltaPending(motor)
    /\ OutputsZero(motor)
    /\ motor.pidLeft.lastTime > 0

(***************************************************************************)
(* Encoder specification: the two MotorEncoders under every sequence of    *)
(* interrupts, the pins reading any of the four states (the state they     *)
(* read before included).                                                  *)
(***************************************************************************)
\* encoder positions are explored within -MaxEncoderCount .. MaxEncoderCount
MaxEncoderCount == 3

\* the state that follows s when the shaft turns forward one step:
\* 00 -> 10 -> 11 -> 01 -> 00, state = (A << 1) | B
GrayNext(s) == CASE s = 0 -> 2 [] s = 2 -> 3 [] s = 3 -> 1 [] s = 1 -> 0

\* the kind of the channel change prev -> curr
EdgeKind(prev, curr) ==
    IF curr = prev THEN "nochange"
    ELSE IF curr = GrayNext(prev) THEN "forward"
    ELSE IF prev = GrayNext(curr) THEN "backward"
    ELSE "skipped"

\* what a change of that kind adds to the net count of an encoder
EdgeCount(kind, reversed) ==
    LET step == CASE kind = "forward" -> 1 [] kind = "backward" -> -1 [] OTHER -> 0
    IN  IF reversed THEN -step ELSE step

MCInitializeAnyPins == InitializeMotors(PinStates)

\* an interrupt of one encoder, the pins reading any state; the observation
\* classifies the change and keeps the net count
EncoderInterruptCounted ==
    \E side \in Sides, currState \in PinStates :
        LET e    == EncoderOf(motor, side)
            kind == EdgeKind(e.lastState, currState)
        IN  /\ EncoderISR(side, currState, MaxEncoderCount)
            /\ obs' = [obs EXCEPT !.lastOp = "handleInterrupt",
                                  !.afterStop = FALSE,
                                  !.lastEdge = kind,
                                  !.netCount[side] = @ + EdgeCount(kind, e.reverse)]
            /\ UNCHANGED now
            /\ OthersUnchangedByDrive

NextEncoder ==
    \/ MCInitializeAnyPins
    \/ EncoderInterruptCounted

SpecEncoder == Init /\ [][NextEncoder]_vars

(***************************************************************************)
(* C10: for every sequence of channel-state changes delivered to           *)
(* handleInterrupt, getPosition() equals the net signed count of valid     *)
(* single-step quadrature transitions (+1 forward, -1 backward, the sign   *)
(* negated for a reversed encoder); skipped and no-change transitions      *)
(* contribute zero.                                                        *)
(***************************************************************************)
C10_PositionIsNetCount ==
    \A side \in Sides :
        getPosition(EncoderOf(motor, side)) = obs.netCount[side]

\* both encoders have moved off zero, in opposite senses, and the interrupt
\* just handled was a skipped (two-bit) change
C10_Witness ==
    /\ motor.isInitialized
    /\ getPosition(motor.leftEncoder) < 0
    /\ getPosition(motor.rightEncoder) > 1
    /\ obs.lastOp = "handleInterrupt"
    /\ obs.lastEdge = "skipped"

(***************************************************************************)
(* Speed-sampling specification: edge interrupts of the two encoders        *)
(* interleaved in every order with getPositionDelta calls.                 *)
(***************************************************************************)
\* an edge interrupt of one encoder, remembered until the next call
EncoderEdge ==
    \E side \in Sides, currState \in PinStates :
        /\ currState # EncoderOf(motor, side).lastState
        /\ EncoderISR(side, currState, MaxCount)
        /\ obs' = [obs EXCEPT !.lastOp = "handleInterrupt",
                              !.afterStop = FALSE,
                              !.edgeSince[side] = TRUE]
        /\ UNCHANGED now
        /\ OthersUnchangedByDrive

\* updatePID reading one encoder through getPositionDelta
ReadPositionDelta ==
    \E side \in Sides :
        LET rd == getPositionDelta(EncoderOf(motor, side))
        IN  /\ motor.isInitialized
            /\ motor' = IF side = "L"
                        THEN [motor EXCEPT !.leftEncoder = rd.enc]
                        ELSE [motor EXCEPT !.rightEncoder = rd.enc]
            /\ obs' = [obs EXCEPT !.lastOp = "getPositionDelta",
                                  !.afterStop = FALSE,
                                  !.deltaSum[side] = @ + rd.delta,
                                  !.lastDelta[side] = rd.delta,
                                  !.repeatCall[side] = ~obs.edgeSince[side],
                                  !.edgeSince[side] = FALSE]
            /\ UNCHANGED now
            /\ OthersUnchangedByDrive

NextSampling ==
    \/ MCInitialize
    \/ EncoderEdge
    \/ ReadPositionDelta

SpecSampling == Init /\ [][NextSampling]_vars

(***************************************************************************)
(* C11: getPositionDelta() returns position minus the baseline and moves   *)
(* the baseline to position: under any interleaving of edge interrupts     *)
(* with calls, the values returned sum to the net position change since    *)
(* the first baseline up to the last call, the counts not yet returned are *)
(* exactly position minus baseline, and a call with no channel change      *)
(* since the call before returns 0.                                        *)
(***************************************************************************)
C11_DeltasSumToPosition ==
    \A side \in Sides :
        LET e == EncoderOf(motor, side)
        IN  /\ obs.deltaSum[side] = e.lastSpeedPosition
            /\ obs.deltaSum[side] + (e.position - e.lastSpeedPosition) = getPosition(e)
            /\ obs.repeatCall[side] /\ ~obs.edgeSince[side] => obs.lastDelta[side] = 0

\* calls and edges were interleaved on the right encoder: counts were returned
\* by more than one call (the sum differs from the value last returned), the
\* last call returned a non-zero delta, and an edge has come since
C11_Witness ==
    /\ motor.isInitialized
    /\ obs.deltaSum["R"] # 0
    /\ obs.lastDelta["R"] # 0
    /\ obs.deltaSum["R"] # obs.lastDelta["R"]
    /\ motor.rightEncoder.position # motor.rightEncoder.lastSpeedPosition
    /\ obs.repeatCall["L"] /\ obs.lastDelta["L"] = 0 /\ obs.deltaSum["L"] < 0

(***************************************************************************)
(* Interval specification: the closed-loop drive with update() called at   *)
(* exactly the fixed PID interval, between any setMotorSpeeds and          *)
(* stopMotors calls, the wheels turning forward.                            *)
(***************************************************************************)
\* the clock stops after this many PID intervals
MaxIntervals == 4

PidOf(m, side) == IF side = "L" THEN m.pidLeft ELSE m.pidRight

\* a pivot at the lowest speed, commanded besides SpeedCommands: the left wheel
\* creeps, the right wheel is to stand still
SlowTurns == { <<2, 0>> }

MCSetSlowTurn ==
    \E c \in SlowTurns :
        /\ motor' = setMotorSpeeds(motor, c[1], c[2])
        /\ obs' = Observe("setMotorSpeeds")
        /\ UNCHANGED now
        /\ OthersUnchangedByDrive

\* a wheel turns forward by one encoder edge
WheelAdvance ==
    \E side \in Sides :
        /\ EncoderISR(side, GrayNext(EncoderOf(motor, side).lastState), MaxCount)
        /\ UNCHANGED <<now, obs>>
        /\ OthersUnchangedByDrive

\* one PID interval passes and the motor task calls update()
RunInterval ==
    /\ motor.isInitialized
    /\ now < MaxIntervals * MOTOR_PID_INTERVAL_MS
    /\ now' = (now + MOTOR_PID_INTERVAL_MS) % ClockModulus
    /\ motor' = update(motor, now')
    /\ obs' = Observe("update")
    /\ OthersUnchangedByDrive

NextInterval ==
    \/ MCInitialize
    \/ MCSetMotorSpeeds
    \/ MCSetSlowTurn
    \/ MCStopMotors
    \/ WheelAdvance
    \/ RunInterval

SpecInterval == Init /\ [][NextInterval]_vars

\* this step is an updatePID of the wheel, performed one interval after its
\* last one, with a zero target and a zero measured speed
ZeroInputUpdate(side) ==
    /\ obs'.lastOp = "update"
    /\ ~UpdateSkipped(motor)
    /\ ElapsedMs(now', PidOf(motor, side).lastTime) = MOTOR_PID_INTERVAL_MS
    /\ PidOf(motor', side).lastTime = now'
    /\ PidOf(motor, side).targetSpeed = 0
    /\ PidOf(motor', side).currentSpeed = 0

\* the update left every field of the wheel's PID state but lastTime as it
\* was: each later update with the same inputs repeats it
PidSettled(side) ==
    PidOf(motor', side) = [PidOf(motor, side) EXCEPT !.lastTime = now']

(***************************************************************************)
(* C18: with a constant zero target and zero measured speed, updatePID run *)
(* at exactly the fixed interval brings the output of a wheel to zero and  *)
(* keeps it there, from any reachable PID state.  Stated on the state the  *)
(* wheel PID settles in: an update with zero target and zero measured      *)
(* speed that reproduces the PID state (so that every later one does too)  *)
(* has output zero.                                                        *)
(***************************************************************************)
C18_ZeroInputSettlesAtZero ==
    [][ \A side \in Sides :
            (ZeroInputUpdate(side) /\ PidSettled(side))
                => PidOf(motor', side).currentPWM = 0 ]_vars

StallOf(m, side) == IF side = "L" THEN m.leftStall ELSE m.rightStall

\* the PWM duty and H-bridge inputs update() writes for one wheel
WheelOutput(m, side) ==
    IF side = "L" THEN << m.ledcLeft, m.pinsLeft >> ELSE << m.ledcRight, m.pinsRight >>

\* this step is an update() that reached the wheel PIDs (no clock tick and no
\* encoder interrupt: those leave the record of the last operation alone)
UpdateRan ==
    /\ obs'.lastOp = "update"
    /\ ~UpdateSkipped(motor)
    /\ now' = now
    /\ \A side \in Sides :
          EncoderOf(motor', side).lastState = EncoderOf(motor, side).lastState

(***************************************************************************)
(* C19: an updatePID call made less than the fixed interval (20 ms) after  *)
(* that wheel's last update hands back the previous output, consumes no    *)
(* encoder delta and changes no PID state; the PID state of a wheel        *)
(* changes in an update only when the interval has elapsed.                *)
(***************************************************************************)
C19_EarlyUpdateReusesOutput ==
    [][ UpdateRan =>
          \A side \in Sides :
              LET pid == PidOf(motor, side)
              IN  /\ USub(now', pid.lastTime) < MOTOR_PID_INTERVAL_MS
                        => /\ PidOf(motor', side) = pid
                           /\ EncoderOf(motor', side) = EncoderOf(motor, side)
                           /\ StallOf(motor', side) = StallOf(motor, side)
                           /\ WheelOutput(motor', side)
                                 = << Abs(pid.currentPWM),
                                      DirectionPins(pid.currentPWM >= 0) >>
                  /\ PidOf(motor', side) # pid
                        => USub(now', pid.lastTime) >= MOTOR_PID_INTERVAL_MS ]_vars

\* an update() came 1..19 ms after the right wheel's last PID update, its
\* output non-zero and encoder counts waiting to be consumed, and left them
\* waiting
C19_Witness ==
    /\ motor.isInitialized /\ motor.pidEnabled /\ ~motor.motorsStopped
    /\ obs.lastOp = "update"
    /\ USub(now, motor.pidRight.lastTime) \in 1 .. (MOTOR_PID_INTERVAL_MS - 1)
    /\ motor.pidRight.currentPWM # 0
    /\ motor.rightEncoder.position # motor.rightEncoder.lastSpeedPosition
    /\ motor.ledcRight = Abs(motor.pidRight.currentPWM)

\* this step is an update() in which updatePID of the wheel ran its PID
\* calculation (the interval had elapsed)
PidPerformed(side) ==
    /\ obs'.lastOp = "update"
    /\ ~UpdateSkipped(motor)
    /\ ElapsedMs(now', PidOf(motor, side).lastTime) >= MOTOR_PID_INTERVAL_MS
    /\ PidOf(motor', side).lastTime = now'

\* the clamped PID output of the performed update of this step, before the
\* dead zone: from the target and previous measurement of the state before
\* and the accumulator and measurement stored by the update
ClampedOutputOfStep(side) ==
    ClampedPidOutput(Gains(motor), PidOf(motor, side).targetSpeed,
                     PidOf(motor', side).errorSum,
                     PidOf(motor', side).currentSpeed,
                     PidOf(motor, side).currentSpeed)

(***************************************************************************)
(* C20: after every performed updatePID with a non-zero target the output  *)
(* magnitude is at least the minimum PWM (40); when the clamped PID output *)
(* had a magnitude below 40 the output is exactly 40 in the sign of the    *)
(* target, whatever the sign of the PID sum; with a zero target the        *)
(* clamped PID output is handed back as it is.                             *)
(***************************************************************************)
C20_DeadZoneFollowsTarget ==
    [][ \A side \in Sides :
          PidPerformed(side) =>
            LET target == PidOf(motor, side).targetSpeed
                raw    == ClampedOutputOfStep(side)
                out    == PidOf(motor', side).currentPWM
            IN  /\ target # 0 => Abs(out) >= DEAD_ZONE_PWM
                /\ (target > 0 /\ Abs(raw) < DEAD_ZONE_PWM) => out = DEAD_ZONE_PWM
                /\ (target < 0 /\ Abs(raw) < DEAD_ZONE_PWM) => out = -DEAD_ZONE_PWM
                /\ target = 0 => out = raw ]_vars

\* a performed update gave the left wheel -40 for a negative target while the
\* PID sum was positive and below 40 (whatever the previous measurement was),
\* and gave the right wheel, whose target is zero, an output between 1 and 39
C20_Witness ==
    /\ obs.lastOp = "update"
    /\ motor.isInitialized /\ motor.pidEnabled /\ ~motor.motorsStopped
    /\ motor.pidLeft.lastTime = now /\ now > 0
    /\ motor.pidLeft.targetSpeed < 0
    /\ motor.pidLeft.currentPWM = -DEAD_ZONE_PWM
    /\ \A prev \in (-2 * MaxCount) .. (2 * MaxCount) :
          ClampedPidOutput(Gains(motor), motor.pidLeft.targetSpeed,
                           motor.pidLeft.errorSum,
                           motor.pidLeft.currentSpeed, prev) \in 1 .. (DEAD_ZONE_PWM - 1)
    /\ motor.pidRight.lastTime = now
    /\ motor.pidRight.targetSpeed = 0
    /\ motor.pidRight.currentPWM \in 1 .. (DEAD_ZONE_PWM - 1)

(***************************************************************************)
(* C26: a setMotorSpeeds(l, r) call with l or r non-zero always clears the *)
(* stop-lock, and the next update() that is due then drives every wheel    *)
(* whose target is non-zero with a non-zero PWM: a stopped rover can       *)
(* always be commanded to move again.                                      *)
(***************************************************************************)
C26_NonZeroCommandRestartsDrive ==
    /\ []((motor.isInitialized /\ obs.lastOp = "setMotorSpeeds") => ~motor.motorsStopped)
    /\ [][ (motor.isInitialized /\ obs.lastOp = "setMotorSpeeds"
              /\ obs'.lastOp = "update" /\ PidDue(motor, now))
           => \A side \in Sides :
                  PidOf(motor, side).targetSpeed # 0
                      => /\ PidOf(motor', side).lastTime = now
                         /\ PidOf(motor', side).currentPWM # 0
                         /\ WheelOutput(motor', side)[1] # 0 ]_vars

\* a non-zero command reached the drive while the stop-lock was engaged, and
\* an update() that was due has since driven both wheels
C26_Witness ==
    /\ motor.isInitialized /\ motor.pidEnabled
    /\ obs.lastOp = "update"
    /\ obs.released
    /\ now > 0
    /\ motor.pidLeft.lastTime = now /\ motor.pidRight.lastTime = now
    /\ motor.pidLeft.targetSpeed # 0 /\ motor.pidRight.targetSpeed # 0
    /\ motor.ledcLeft # 0 /\ motor.ledcRight # 0

(***************************************************************************)
(* Skew specification: the closed-loop drive on a millisecond clock, with  *)
(* the clock tick that can fall between the two updatePID calls of one     *)
(* update(): each call reads millis() for itself.                          *)
(***************************************************************************)
\* the clock of the skew specification stops at this time
MaxSkewTime == 45

\* how far the clock runs between two calls, milliseconds
SkewSteps == { 1, MOTOR_PID_INTERVAL_MS - 1, MOTOR_PID_INTERVAL_MS }

ElapseMs ==
    \E d \in SkewSteps :
        /\ now + d <= MaxSkewTime
        /\ now' = now + d
        /\ UNCHANGED <<motor, obs>>
        /\ OthersUnchangedByDrive

\* update(), the millisecond clock ticking or not between its two millis()
\* reads
MCUpdateOnClock ==
    \E d \in {0, 1} :
        /\ now + d <= MaxSkewTime
        /\ motor' = updateAt(motor, now, now + d)
        /\ now' = now + d
        /\ obs' = Observe("update")
        /\ OthersUnchangedByDrive

NextSkew ==
    \/ MCInitialize
    \/ MCSetMotorSpeeds
    \/ ElapseMs
    \/ MCUpdateOnClock

SpecSkew == Init /\ [][NextSkew]_vars

(***************************************************************************)
(* C27: within one update() the PID updates of the left and of the right   *)
(* wheel are either both performed or both skipped, so that both encoder   *)
(* deltas always cover the same interval.  A performed PID update changes  *)
(* the wheel's PID state (its lastTime at least), a skipped one leaves it. *)
(***************************************************************************)
C27_WheelsUpdateTogether ==
    [][ (obs'.lastOp = "update" /\ ~UpdateSkipped(motor))
            => ((motor'.pidLeft # motor.pidLeft) <=> (motor'.pidRight # motor.pidRight))
       ]_vars

(***************************************************************************)
(* Stall specification: the closed-loop drive run at the fixed interval    *)
(* for longer than the stall duration, the right wheel blocked, turning    *)
(* slowly or turning fast.                                                 *)
(***************************************************************************)
\* the clock stops after this many PID intervals (560 ms)
MaxStallIntervals == 28
\* the right encoder is followed up to this position
MaxStallCount == 4

\* the speed command of the stall specification: a turn that asks the right
\* wheel for full speed
StallCommands == { <<-100, 300>> }

MCSetStallSpeeds ==
    \E c \in StallCommands :
        /\ motor' = setMotorSpeeds(motor, c[1], c[2])
        /\ obs' = Observe(IF c[1] = 0 /\ c[2] = 0 THEN "setMotorSpeeds0" ELSE "setMotorSpeeds")
        /\ UNCHANGED now
        /\ OthersUnchangedByDrive

\* the right wheel turns forward by one encoder edge
RightWheelAdvance ==
    /\ EncoderISR("R", GrayNext(motor.rightEncoder.lastState), MaxStallCount)
    /\ UNCHANGED <<now, obs>>
    /\ OthersUnchangedByDrive

\* one PID interval passes and the motor task calls update()
RunStallInterval ==
    /\ motor.isInitialized
    /\ now < MaxStallIntervals * MOTOR_PID_INTERVAL_MS
    /\ now' = (now + MOTOR_PID_INTERVAL_MS) % ClockModulus
    /\ motor' = update(motor, now')
    /\ obs' = Observe("update")
    /\ OthersUnchangedByDrive

NextStall ==
    \/ MCInitialize
    \/ MCSetStallSpeeds
    \/ RightWheelAdvance
    \/ RunStallInterval

SpecStall == Init /\ [][NextStall]_vars

\* in the performed PID update of this step the wheel had more than the
\* threshold PWM applied and less than the threshold speed measured
StallSeen(side) ==
    /\ Abs(PidOf(motor, side).currentPWM) > STALL_PWM
    /\ Abs(PidOf(motor', side).currentSpeed) < STALL_SPEED

(***************************************************************************)
(* C28: stall detection flags a fault when the applied output magnitude    *)
(* exceeds 50 while the measured speed stays below 2 counts per interval   *)
(* for longer than 500 ms, flags it at most once per continuous stall      *)
(* episode, clears when the wheel moves again, and never changes the       *)
(* wheel's target, integral or PWM output.                                 *)
(***************************************************************************)
C28_StallFlagFollowsEpisode ==
    [][ \A side \in Sides :
          PidPerformed(side) =>
            LET st  == StallOf(motor, side)
                st2 == StallOf(motor', side)
                long == st.stallStart # 0 /\ USub(now', st.stallStart) > STALL_MS
            IN  \* raised exactly when a stall has lasted longer than the duration
                /\ (StallSeen(side) /\ long) => st2.stallWarned
                /\ (st2.stallWarned /\ ~st.stallWarned) => (StallSeen(side) /\ long)
                \* once per episode: the flag and the start of the episode stay
                /\ (StallSeen(side) /\ st.stallWarned) => st2 = st
                /\ (StallSeen(side) /\ st.stallStart # 0) => st2.stallStart = st.stallStart
                \* cleared when the wheel moves or the output is low
                /\ ~StallSeen(side) => st2 = NewStall
                \* the PID result is what it is for any stall bookkeeping
                /\ PidOf(motor', side).targetSpeed = PidOf(motor, side).targetSpeed
                /\ PidOf(motor', side)
                      = updatePID(Gains(motor), PidOf(motor, side),
                                  EncoderOf(motor, side), NewStall, now').pid ]_vars

\* the right wheel's fault is flagged: for more than 500 ms, with full output
\* applied, it crept by less than 2 counts per interval (2 counts or more in
\* all)
C28_Witness ==
    /\ obs.lastOp = "update"
    /\ motor.rightStall.stallWarned
    /\ motor.rightStall.stallStart # 0
    /\ USub(now, motor.rightStall.stallStart) > STALL_MS
    /\ Abs(motor.pidRight.currentPWM) > STALL_PWM
    /\ motor.pidRight.targetSpeed # 0
    /\ motor.rightEncoder.position >= STALL_SPEED

(***************************************************************************)
(* Tuning specification: the closed-loop drive with update() at the fixed  *)
(* interval, the gains changed through setPIDTunings between updates.      *)
(***************************************************************************)
\* gains <<kp, ki, kd>> in hundredths handed to setPIDTunings: the defaults,
\* a four times larger ki, and a pure P controller
Tunings == { <<200, 10, 5>>, <<200, 40, 5>>, <<100, 0, 0>> }

MCSetPIDTunings ==
    \E g \in Tunings :
        /\ motor' = setPIDTunings(motor, g[1], g[2], g[3])
        /\ obs' = Observe("setPIDTunings")
        /\ UNCHANGED now
        /\ OthersUnchangedByDrive

NextTuning ==
    \/ MCInitialize
    \/ MCSetMotorSpeeds
    \/ MCSetPIDTunings
    \/ RunInterval

SpecTuning == Init /\ [][NextTuning]_vars

\* the last operation was an update() in which the wheel PIDs ran
PidJustPerformed(side) ==
    /\ obs.lastOp = "update"
    /\ motor.isInitialized /\ motor.pidEnabled /\ ~motor.motorsStopped
    /\ now > 0
    /\ PidOf(motor, side).lastTime = now

(***************************************************************************)
(* C21: after every performed updatePID with Ki > 0, also after            *)
(* setPIDTunings changed Ki, the integral accumulator is clamped so that   *)
(* the integral term |Ki * errorSum| is at most half the output range      *)
(* (128), whatever the sequence of errors.                                 *)
(***************************************************************************)
C21_IntegralTermBounded ==
    \A side \in Sides :
        (PidJustPerformed(side) /\ motor.ki > 0)
            => Abs(motor.ki * PidOf(motor, side).errorSum) <= INTEGRAL_LIMIT * 100 * 255

\* an update performed after ki was raised from its default, with a zero
\* target (it added no error), left the right wheel's accumulator exactly at
\* the limit 128 / ki of the new ki
C21_Witness ==
    /\ PidJustPerformed("R")
    /\ motor.ki > MOTOR_PID_KI
    /\ motor.ki * motor.pidRight.errorSum = INTEGRAL_LIMIT * 100 * 255
    /\ motor.pidRight.targetSpeed = 0

(***************************************************************************)
(* Rollover specification: the closed-loop drive around the wrap of the    *)
(* millisecond clock.  The clock is followed in a window on both sides of  *)
(* the wrap, through one wrap; the time in between passes in one step.     *)
(***************************************************************************)
\* the clock is followed within this many milliseconds of the wrap
WrapWindow == 40

NearWrap(t) == t <= WrapWindow \/ t >= ClockModulus - WrapWindow

\* how long the clock runs between two calls: half an interval, an interval,
\* or the time from the start of the window to its end before the wrap
ElapseSteps == { 10, MOTOR_PID_INTERVAL_MS, ClockModulus - 60 }

Elapse ==
    \E d \in ElapseSteps :
        /\ NearWrap((now + d) % ClockModulus)
        /\ d > WrapWindow => ~obs.wrapped
        /\ now' = (now + d) % ClockModulus
        /\ obs' = [obs EXCEPT !.wrapped = obs.wrapped \/ now' < now]
        /\ UNCHANGED motor
        /\ OthersUnchangedByDrive

NextRollover ==
    \/ MCInitialize
    \/ MCSetMotorSpeeds
    \/ Elapse
    \/ MCUpdate

SpecRollover == Init /\ [][NextRollover]_vars

(***************************************************************************)
(* C22: the elapsed time updatePID computes equals (now - lastTime) modulo *)
(* the width of the clock for every now and lastTime, also after the clock *)
(* wrapped (now < lastTime): it is never negative, and the wheel PID runs  *)
(* in an update exactly when that difference has reached the interval,     *)
(* neither stalling nor firing early across the wrap.                      *)
(***************************************************************************)
C22_ElapsedTimeSurvivesWrap ==
    [][ UpdateRan =>
          \A side \in Sides :
              LET pid == PidOf(motor, side)
                  dt  == ElapsedMs(now, pid.lastTime)
              IN  /\ dt >= 0
                  /\ dt = USub(now, pid.lastTime)
                  /\ (PidOf(motor', side) # pid)
                        <=> (USub(now, pid.lastTime) >= MOTOR_PID_INTERVAL_MS) ]_vars

\* the right wheel PID ran at clock value 0 with a non-zero output: the clock
\* had wrapped since the wheel's last update (an update at the start, clock 0
\* and lastTime 0, is held back by the interval)
C22_Witness ==
    /\ obs.lastOp = "update"
    /\ motor.isInitialized /\ motor.pidEnabled /\ ~motor.motorsStopped
    /\ now = 0
    /\ motor.pidRight.lastTime = 0
    /\ motor.pidRight.currentPWM # 0

(***************************************************************************)
(* ManualControlTask                                                       *)
(***************************************************************************)
\* obstacleDetected = (dist > 0 && dist < 5.0), dist in cm, here in millimetres
ObstacleDetected(distMM) == distMM > 0 /\ distMM < 50

\* SharedData::setManualControlState
setManualControlState(sh, active, moving, direction, speed) ==
    [sh EXCEPT !.manualControl = [ manualModeActive |-> active,
                                   manualMoving     |-> moving,
                                   manualDirection  |-> direction,
                                   manualSpeed      |-> speed ]]

\* The methods of ManualControlTask act on a context c: the task object, the
\* motor controller and the shared store, and whether stopMotors was called.
ManualContext(mc, m, sh) ==
    [ manual |-> mc, motor |-> m, shared |-> sh, stopCalled |-> FALSE ]

\* ManualControlTask::stopMovement (stopAllMovement calls it and nothing else)
stopMovement(c) ==
    [c EXCEPT !.motor = stopMotors(c.motor),
              !.stopCalled = TRUE,
              !.manual.isMoving = FALSE,
              !.manual.currentDirection = "",
              !.manual.currentSpeed = 0]

\* the <<left, right>> speeds processManualCommand maps a direction to
DirectionSpeeds(direction, speed) ==
    CASE direction = "forward"        -> << speed, speed >>
      [] direction = "backward"       -> << -speed, -speed >>
      [] direction = "left"           -> << -speed, speed >>
      [] direction = "right"          -> << speed, -speed >>
      [] direction = "forward_left"   -> << TruncDiv(speed, 2), speed >>
      [] direction = "forward_right"  -> << speed, TruncDiv(speed, 2) >>
      [] direction = "backward_left"  -> << TruncDiv(-speed, 2), -speed >>
      [] direction = "backward_right" -> << -speed, TruncDiv(-speed, 2) >>
      [] OTHER                        -> << 0, 0 >>

\* ManualControlTask::processManualCommand at time t
processManualCommand(c, direction, speed, t) ==
    LET c1 == [c EXCEPT !.manual.currentDirection = direction,
                        !.manual.currentSpeed = speed,
                        !.manual.isMoving = TRUE,
                        !.manual.lastCommandTime = t]
        sp == DirectionSpeeds(direction, speed)
    IN  IF direction = "stop"
        THEN [c1 EXCEPT !.motor = stopMotors(c1.motor),
                        !.stopCalled = TRUE,
                        !.manual.isMoving = FALSE]
        ELSE [c1 EXCEPT !.motor = setMotorSpeeds(c1.motor, sp[1], sp[2])]

\* the timeout test at the end of an iteration of run() that never fires
CommandTimedOut_Never(mc, t) == FALSE

\* the timeout test at the end of an iteration of run()
CommandTimedOut(mc, t) ==
    mc.isMoving /\ USub(t, mc.lastCommandTime) > commandTimeout

\* run(): the branch for a control command (enable / disable manual mode)
ManualControlCommand(c, cmd) ==
    LET c1 == IF cmd.enableManual
              THEN [c EXCEPT !.manual.isManualModeActive = TRUE]
              ELSE IF c.manual.isManualModeActive
                   THEN LET off == [c EXCEPT !.manual.isManualModeActive = FALSE]
                        IN  IF off.manual.isMoving THEN stopMovement(off) ELSE off
                   ELSE c
    IN  [c1 EXCEPT !.shared =
            setManualControlState(c1.shared, c1.manual.isManualModeActive,
                                  c1.manual.isMoving, c1.manual.currentDirection,
                                  c1.manual.currentSpeed)]

\* run(): the branch for a movement command
ManualMoveCommand(c, cmd, t) ==
    IF ~c.manual.isManualModeActive
    THEN c
    ELSE LET c1 == IF cmd.direction = "stop"
                   THEN (IF c.manual.isMoving THEN stopMovement(c) ELSE c)
                   ELSE IF cmd.direction # "" /\ cmd.speed > 0
                   THEN processManualCommand(
                            [c EXCEPT !.manual.isMoving = TRUE,
                                      !.manual.currentDirection = cmd.direction,
                                      !.manual.currentSpeed = cmd.speed],
                            cmd.direction, cmd.speed, t)
                   ELSE c
         IN  [c1 EXCEPT !.shared =
                 setManualControlState(c1.shared, c1.manual.isManualModeActive,
                                       c1.manual.isMoving, c1.manual.currentDirection,
                                       c1.manual.currentSpeed)]

\* run(): the timeout check that ends an iteration
ManualTimeoutCheck(c, t) ==
    IF CommandTimedOut(c.manual, t)
    THEN LET c1 == stopMovement(c)
         IN  [c1 EXCEPT !.shared =
                 setManualControlState(c1.shared, c1.manual.isManualModeActive,
                                       FALSE, "", 0)]
    ELSE c

\* the safety check of run() stops the rover
ProximityStop(c) ==
    /\ ObstacleDetected(c.shared.roverState.frontObstacleDistance)
    /\ c.manual.isMoving
    /\ c.manual.currentDirection = "forward"

\* one iteration of the loop of ManualControlTask::run, xQueueReceive having
\* returned at time t with a command (received) or without one
ManualRunIteration(c, received, cmd, t) ==
    IF ProximityStop(c)
    THEN stopMovement(c)
    ELSE IF received
    THEN LET c1 == [c EXCEPT !.manual.lastCommandTime = t]
         IN  IF cmd.isControlCmd
             THEN ManualControlCommand(c1, cmd)
             ELSE ManualTimeoutCheck(ManualMoveCommand(c1, cmd, t), t)
    ELSE ManualTimeoutCheck(c, t)

\* ManualControlTask::initialize at time t
ManualTaskInitialize(c, t) ==
    [c EXCEPT !.motor = initialize(c.motor, 3, 3),
              !.manual = [NewManualControlTask EXCEPT !.waitSince = t,
                                                       !.pc = c.manual.pc]]

(***************************************************************************)
(* Manual-control specification: the loop of ManualControlTask::run fed by *)
(* commands on its queue, the range sensor publishing distances, and the   *)
(* clock running while the loop waits on the queue.                        *)
(***************************************************************************)
\* the clock of the manual-control specification stops at this time
MaxManualTime == 220
\* commands the sender leaves waiting in the queue at one time
MaxQueued == 1
\* the clock advances in steps of this many milliseconds while the loop waits
ClockStep == 10

ControlCommand(enable) ==
    [ direction |-> "", speed |-> 0, enableManual |-> enable, isControlCmd |-> TRUE ]

MoveCommand(direction, speed) ==
    [ direction |-> direction, speed |-> speed, enableManual |-> FALSE,
      isControlCmd |-> FALSE ]

\* the ManualCommands a sender puts on the queue
ManualCommands ==
    { ControlCommand(TRUE), ControlCommand(FALSE),
      MoveCommand("forward", 50), MoveCommand("backward", 50),
      MoveCommand("left", 50), MoveCommand("forward_left", 51),
      MoveCommand("stop", 0) }

\* millimetres the range sensor reports: 3 cm and 5 cm
RangesMM == { 30, 50 }

\* TOFTask::run publishing a range
setFrontObstacleDistance(sh, mm) ==
    [sh EXCEPT !.roverState.frontObstacleDistance = mm]

\* createTasks() calling manualControlTask.initialize()
ManualInitialize ==
    /\ ~commandQueue.created
    /\ LET c == ManualTaskInitialize(ManualContext(manual, motor, shared), now)
       IN  /\ manual' = c.manual
           /\ motor' = c.motor
    /\ commandQueue' = [ created |-> TRUE, items |-> <<>> ]
    /\ obs' = Observe("initialize")
    /\ UNCHANGED <<now, nav, shared, tof>>

\* a sender putting a command on the queue (xQueueSend on getCommandQueue())
SendManualCommand ==
    \E cmd \in ManualCommands :
        /\ commandQueue.created
        /\ Len(commandQueue.items) < MaxQueued
        /\ Len(commandQueue.items) < MANUAL_CMD_QUEUE_SIZE
        /\ commandQueue' = [commandQueue EXCEPT !.items = Append(@, cmd)]
        /\ UNCHANGED <<now, motor, nav, manual, shared, tof, obs>>

\* TOFTask::run
PublishRange ==
    \E mm \in RangesMM :
        /\ shared' = setFrontObstacleDistance(shared, mm)
        /\ UNCHANGED <<now, motor, nav, manual, commandQueue, tof, obs>>

\* time passes while run() is blocked in xQueueReceive on an empty queue
ManualWait ==
    /\ commandQueue.created
    /\ commandQueue.items = <<>>
    /\ now < MaxManualTime
    /\ USub(now, manual.waitSince) < updateInterval
    /\ LET remaining == updateInterval - USub(now, manual.waitSince)
           step      == IF ClockStep < remaining THEN ClockStep ELSE remaining
       IN  now' = (now + step) % ClockModulus
    /\ UNCHANGED <<motor, nav, manual, shared, commandQueue, tof, obs>>

\* what the observation keeps of one iteration of run()
ObserveManualIteration(c, c2, received, cmd, t) ==
    [obs EXCEPT
        !.lastOp = "ManualControlTask::run",
        !.afterStop = FALSE,
        !.iteration =
            [ obstacle     |-> ObstacleDetected(c.shared.roverState.frontObstacleDistance),
              wasMoving    |-> c.manual.isMoving,
              wasDirection |-> c.manual.currentDirection,
              stopCalled   |-> c2.stopCalled,
              timedOut     |-> /\ ~ProximityStop(c)
                               /\ ~(received /\ cmd.isControlCmd)
                               /\ c2.stopCalled
                               /\ USub(t, c2.manual.lastCommandTime) > commandTimeout,
              guided       |-> FALSE,
              finalReached |-> FALSE,
              missionWas   |-> c.shared.roverState.missionState ] ]

\* one iteration of run(), as an action
ManualIteration(received, cmd) ==
    LET c  == ManualContext(manual, motor, shared)
        c2 == ManualRunIteration(c, received, cmd, now)
    IN  /\ manual' = [c2.manual EXCEPT !.waitSince = now]
        /\ motor' = c2.motor
        /\ shared' = c2.shared
        /\ obs' = ObserveManualIteration(c, c2, received, cmd, now)
        /\ UNCHANGED <<now, nav, tof>>

\* xQueueReceive returns a command
ManualReceive ==
    /\ commandQueue.created
    /\ commandQueue.items # <<>>
    /\ ManualIteration(TRUE, Head(commandQueue.items))
    /\ commandQueue' = [commandQueue EXCEPT !.items = Tail(@)]

\* xQueueReceive returns empty-handed after updateInterval
ManualReceiveTimeout ==
    /\ commandQueue.created
    /\ commandQueue.items = <<>>
    /\ USub(now, manual.waitSince) >= updateInterval
    /\ ManualIteration(FALSE, ControlCommand(FALSE))
    /\ UNCHANGED commandQueue

NextManual ==
    \/ ManualInitialize
    \/ SendManualCommand
    \/ PublishRange
    \/ ManualWait
    \/ ManualReceive
    \/ ManualReceiveTimeout

SpecManual == Init /\ [][NextManual]_vars

(***************************************************************************)
(* C4: an obstacle-proximity fault (0 < distance < 5 cm) observed while    *)
(* the rover is moving under a manual command, whatever the commanded      *)
(* direction, makes the manual-control loop call stopMotors() in that      *)
(* iteration.                                                              *)
(***************************************************************************)
C4_ObstacleStopsAnyManualMotion ==
    (obs.lastOp = "ManualControlTask::run"
        /\ obs.iteration.obstacle /\ obs.iteration.wasMoving)
    => obs.iteration.stopCalled

(***************************************************************************)
(* C5: a moving manual-control task that gets no command for more than     *)
(* commandTimeout calls stopMotors() and clears the moving state within    *)
(* one loop iteration (one queue wait of updateInterval) after the timeout *)
(* elapses, whatever commands came before.                                 *)
(***************************************************************************)
C5_TimeoutStopsWithinOneIteration ==
    /\ manual.isMoving
          => USub(now, manual.lastCommandTime) <= commandTimeout + updateInterval
    /\ (obs.lastOp = "ManualControlTask::run" /\ obs.iteration.timedOut)
          => (~manual.isMoving /\ motor.motorsStopped /\ OutputsZero(motor))

\* the timeout stopped a movement that a later command had started, after an
\* earlier one
C5_Witness ==
    /\ obs.lastOp = "ManualControlTask::run"
    /\ obs.iteration.timedOut
    /\ obs.iteration.wasMoving
    /\ obs.iteration.wasDirection = "backward"
    /\ manual.lastCommandTime > 0
    /\ USub(now, manual.lastCommandTime) > commandTimeout
    /\ ~manual.isMoving

(***************************************************************************)
(* Command-intake specification: the loop of ManualControlTask::run fed    *)
(* with movement commands a sender did not validate.                       *)
(***************************************************************************)
\* ManualControlTask::isCommandValid
isCommandValid(direction, speed) ==
    /\ direction \in { "forward", "backward", "left", "right", "stop",
                       "forward_left", "forward_right",
                       "backward_left", "backward_right" }
    /\ speed >= 0 /\ speed <= 100

\* the commands put on the queue: enabling manual mode, a valid move, a move
\* with an unrecognised direction, moves with a speed outside 0 .. 100
IntakeCommands ==
    { ControlCommand(TRUE), MoveCommand("forward", 50),
      MoveCommand("sideways", 50), MoveCommand("forward", 150),
      MoveCommand("backward", -5) }

\* a sender putting a command on the queue without validating it
SendUnvalidatedCommand ==
    \E cmd \in IntakeCommands :
        /\ commandQueue.created
        /\ Len(commandQueue.items) < MaxQueued
        /\ Len(commandQueue.items) < MANUAL_CMD_QUEUE_SIZE
        /\ commandQueue' = [commandQueue EXCEPT !.items = Append(@, cmd)]
        /\ UNCHANGED <<now, motor, nav, manual, shared, tof, obs>>

NextIntake ==
    \/ ManualInitialize
    \/ SendUnvalidatedCommand
    \/ ManualWait
    \/ ManualReceive
    \/ ManualReceiveTimeout

SpecIntake == Init /\ [][NextIntake]_vars

\* the step is an iteration of run() that received a movement command
\* isCommandValid rejects
ReceivedInvalidMove ==
    /\ commandQueue.items # <<>>
    /\ commandQueue'.items = Tail(commandQueue.items)
    /\ ~Head(commandQueue.items).isControlCmd
    /\ ~isCommandValid(Head(commandQueue.items).direction,
                       Head(commandQueue.items).speed)

(***************************************************************************)
(* C17: a manual movement command with an unrecognised direction string or *)
(* a speed outside 0 .. 100 is rejected with no state mutation: the manual *)
(* task's moving flag, current direction and current speed and the motor   *)
(* targets are unchanged.                                                  *)
(***************************************************************************)
C17_InvalidMoveChangesNothing ==
    [][ ReceivedInvalidMove
        => /\ manual'.isMoving = manual.isMoving
           /\ manual'.currentDirection = manual.currentDirection
           /\ manual'.currentSpeed = manual.currentSpeed
           /\ DriveCommand(motor') = DriveCommand(motor) ]_vars

(***************************************************************************)
(* SharedData: waypoints, position, orientation                            *)
(***************************************************************************)
WaypointSlots == 0 .. (MAX_WAYPOINTS - 1)

\* SharedData::getWaypointCount
getWaypointCount(sh) == Cardinality({ i \in WaypointSlots : sh.waypoints[i].isValid })

\* SharedData::hasWaypoints
hasWaypoints(sh) == getWaypointCount(sh) > 0

\* SharedData::setWaypoint
setWaypoint(sh, index, waypoint) ==
    IF index < 0 \/ index >= MAX_WAYPOINTS
    THEN sh
    ELSE [sh EXCEPT !.waypoints[index] = waypoint]

\* SharedData::clearWaypoints
clearWaypoints(sh) == [sh EXCEPT !.waypoints = [i \in WaypointSlots |-> DefaultWaypoint]]

\* SharedData::isManualModeActive answering that manual mode is off
isManualModeActive_Never(sh) == FALSE

\* SharedData::isManualModeActive
isManualModeActive(sh) == sh.manualControl.manualModeActive

\* a normalization that leaves a remainder of exactly -180 as it is
normalizeAngle_OpenAtMinus180(angle) ==
    LET r == IF angle >= 0 THEN angle % 360 ELSE -((-angle) % 360)
    IN  IF r > 180 THEN r - 360
        ELSE IF r < -180 THEN r + 360
        ELSE r

\* normalizeAngle, for whole degrees: fmod keeps the sign of the dividend
normalizeAngle(angle) ==
    LET r == IF angle >= 0 THEN angle % 360 ELSE -((-angle) % 360)
    IN  IF r > 180 THEN r - 360
        ELSE IF r <= -180 THEN r + 360
        ELSE r

\* calculateDistance for two points of one meridian, decimetres
calculateDistance(lat1, lat2) == Abs(lat2 - lat1)

\* calculateBearing for two points of one meridian: atan2(0, x) is 0 for
\* x >= 0 (target north of, or at, the position) and 180 degrees for x < 0
calculateBearing(lat1, lat2) == normalizeAngle(IF lat2 >= lat1 THEN 0 ELSE 180)

\* sin(radians(d)) for the whole quarter turns the model explores
SinDegrees(d) ==
    CASE d = 90 -> 1 [] d = -90 -> -1 [] OTHER -> 0

(***************************************************************************)
(* NavigationTask.  Its methods act on a context c: the task object, the   *)
(* motor controller, the shared store, and what the iteration did.         *)
(***************************************************************************)
\* WAYPOINT_THRESHOLD 0.3 m, in decimetres
WAYPOINT_THRESHOLD == 3
\* K_XTE 10.0 degrees per metre is 1 degree per decimetre
K_XTE_PER_DM == 1
\* heading PID gains KP 5.00, KI 0.01, KD 0.10, in hundredths
KP == 500
KI == 1
KD == 10
\* the limits of calculatePID: integral windup and output
NAV_INTEGRAL_LIMIT == 100
NAV_OUTPUT_LIMIT == 255

NavContext(n, m, sh) ==
    [ nav |-> n, motor |-> m, shared |-> sh,
      stopCalled |-> FALSE, guided |-> FALSE, finalReached |-> FALSE,
      readFailed |-> FALSE ]

\* The SharedData reads of one guidance tick, in the order the tick makes
\* them; each takes its mutex with a 100 ms timeout and so succeeds (TRUE)
\* or times out (FALSE).
ReadNames ==
    { "position", "orientation", "count", "waypoint", "xtePosition",
      "xteOrientation", "pidOrientation", "reachedPosition", "nextCount" }

\* every read gets its lock
ReadsSucceed == [r \in ReadNames |-> TRUE]

\* GPSPosition::GPSPosition() and IMUData::IMUData(): what a caller holds when
\* a get times out and it did not test the result
DefaultPosition == [ latitude |-> 0, isValid |-> FALSE ]
DefaultIMUData == [ heading |-> 0, isValid |-> FALSE ]

\* SharedData::getPosition / getIMUData into a default-constructed local
getSharedPosition(sh, ok) == IF ok THEN sh.currentPosition ELSE DefaultPosition
getIMUData(sh, ok) == IF ok THEN sh.currentIMUData ELSE DefaultIMUData

\* SharedData::getWaypointCount when its take succeeds or times out
WaypointCountRead(sh, ok) ==
    IF ok THEN Cardinality({ i \in 0 .. (MAX_WAYPOINTS - 1) : sh.waypoints[i].isValid })
    ELSE 0

\* NavigationTask::stopMotors
navStopMotors(c) ==
    [c EXCEPT !.motor = stopMotors(c.motor),
              !.stopCalled = TRUE,
              !.nav.leftMotorSpeed = 0,
              !.nav.rightMotorSpeed = 0]

\* NavigationTask::stopNavigation
stopNavigation(c) ==
    IF ~c.nav.isNavigating
    THEN c
    ELSE LET c1 == navStopMotors(c)
         IN  [c1 EXCEPT !.nav.isNavigating = FALSE,
                        !.shared.roverState.isNavigating = FALSE,
                        !.shared.roverState.currentSpeed = 0]

\* NavigationTask::startNavigation
startNavigation(c) ==
    IF c.nav.isNavigating \/ ~hasWaypoints(c.shared)
    THEN c
    ELSE [c EXCEPT !.nav.currentWaypointIndex = 0,
                   !.nav.pidIntegral = 0,
                   !.nav.pidLastError = 0,
                   !.shared.roverState.isNavigating = TRUE,
                   !.shared.roverState.currentWaypointIndex = 0,
                   !.shared.roverState.totalWaypoints = getWaypointCount(c.shared),
                   !.nav.isNavigating = TRUE]

\* NavigationTask::calculatePID: the integral, the last error and the output
\* (in hundredths) for the heading error e
calculatePID(n, e) ==
    LET integral == constrain(n.pidIntegral + e, -NAV_INTEGRAL_LIMIT, NAV_INTEGRAL_LIMIT)
        output   == KP * e + KI * integral + KD * (e - n.pidLastError)
    IN  [ pidIntegral  |-> integral,
          pidLastError |-> e,
          pidOutput    |-> constrain(output, -100 * NAV_OUTPUT_LIMIT, 100 * NAV_OUTPUT_LIMIT) ]

\* NavigationTask::updateMotorSpeeds
updateMotorSpeeds(c, pidOutput) ==
    LET speedDifference == TruncDiv(pidOutput, 100)
        left  == constrain(c.nav.baseSpeed + speedDifference, 0, 255)
        right == constrain(c.nav.baseSpeed - speedDifference, 0, 255)
    IN  [c EXCEPT !.nav.leftMotorSpeed = left,
                  !.nav.rightMotorSpeed = right,
                  !.motor = setMotorSpeeds(c.motor, left, right),
                  !.guided = TRUE]

\* NavigationTask::isWaypointReached
isWaypointReached(c) ==
    /\ c.shared.currentPosition.isValid
    /\ calculateDistance(c.shared.currentPosition.latitude, c.nav.targetLatitude)
          <= WAYPOINT_THRESHOLD

\* a moveToNextWaypoint that keeps the heading-PID state of the finished leg
moveToNextWaypointReads_KeepsPid(c, countOk) ==
    LET c1 == [c EXCEPT !.nav.currentWaypointIndex = @ + 1,
                        !.readFailed = (@ \/ ~countOk)]
    IN  IF c1.nav.currentWaypointIndex >= WaypointCountRead(c1.shared, countOk)
        THEN [stopNavigation(c1) EXCEPT !.finalReached = TRUE]
        ELSE c1

\* NavigationTask::moveToNextWaypoint, its getWaypointCount succeeding or not
moveToNextWaypointReads(c, countOk) ==
    LET c1 == [c EXCEPT !.nav.currentWaypointIndex = @ + 1,
                        !.readFailed = (@ \/ ~countOk)]
    IN  IF c1.nav.currentWaypointIndex >= WaypointCountRead(c1.shared, countOk)
        THEN [stopNavigation(c1) EXCEPT !.finalReached = TRUE]
        ELSE [c1 EXCEPT !.nav.pidIntegral = 0, !.nav.pidLastError = 0]

\* NavigationTask::moveToNextWaypoint
moveToNextWaypoint(c) == moveToNextWaypointReads(c, TRUE)

\* NavigationTask::calculateCrossTrackError from the position and the
\* orientation it reads, decimetres
calculateCrossTrackError(position, imuData, targetLat) ==
    IF ~position.isValid
    THEN 0
    ELSE calculateDistance(position.latitude, targetLat)
            * SinDegrees(normalizeAngle(
                  calculateBearing(position.latitude, targetLat) - imuData.heading))

\* the heading error of calculatePID from the target bearing, the orientation
\* it reads and the cross-track error
PidHeadingError(targetBearing, imuData, crossTrackError) ==
    LET e == normalizeAngle(targetBearing - imuData.heading)
                 + K_XTE_PER_DM * crossTrackError
    IN  IF e > 180 THEN e - 360
        ELSE IF e < -180 THEN e + 360
        ELSE e

\* the heading error calculatePID works with when every read gets its lock:
\* bearing error plus the cross-track correction, brought back into
\* -180 .. 180 by one turn
HeadingError(positionLat, heading, targetLat) ==
    LET imuData == [ heading |-> heading, isValid |-> TRUE ]
    IN  PidHeadingError(
            calculateBearing(positionLat, targetLat), imuData,
            calculateCrossTrackError([ latitude |-> positionLat, isValid |-> TRUE ],
                                     imuData, targetLat))

\* a validity test that accepts every snapshot
SnapshotValid_Unchecked(sh) == TRUE

\* processNavigation's test of the position and orientation it has read
SnapshotValid(sh) == sh.currentPosition.isValid /\ sh.currentIMUData.isValid

\* NavigationTask::processNavigation at time t, its SharedData reads
\* succeeding or timing out as rd says; cleared says whether the
\* clearWaypoints() of a mission upload in the WiFi task (the other core)
\* takes waypointsMutex between the hasWaypoints() and the getWaypoint() of
\* the tick
processNavigationOver(c, t, rd, cleared) ==
    IF USub(t, c.nav.lastUpdateTime) < navigationUpdateInterval
    THEN c
    ELSE LET c1 == [c EXCEPT !.nav.lastUpdateTime = t]
         IN  IF ~rd["position"]
             THEN [c1 EXCEPT !.readFailed = TRUE]
             ELSE IF ~rd["orientation"]
             THEN [c1 EXCEPT !.readFailed = TRUE]
             ELSE IF ~SnapshotValid(c1.shared)
             THEN c1
             ELSE IF WaypointCountRead(c1.shared, rd["count"]) = 0
             THEN stopNavigation([c1 EXCEPT !.readFailed = ~rd["count"]])
             ELSE IF c1.nav.currentWaypointIndex < 0
                     \/ c1.nav.currentWaypointIndex >= MAX_WAYPOINTS
             THEN stopNavigation(c1)
             ELSE IF ~rd["waypoint"]
             THEN stopNavigation([c1 EXCEPT !.readFailed = TRUE])
             ELSE LET cw  == IF cleared
                             THEN [c1 EXCEPT !.shared = clearWaypoints(c1.shared)]
                             ELSE c1
                      wp  == cw.shared.waypoints[cw.nav.currentWaypointIndex]
                      c2  == [cw EXCEPT !.nav.targetLatitude = wp.latitude]
                      targetBearing ==
                          calculateBearing(c2.shared.currentPosition.latitude,
                                           c2.nav.targetLatitude)
                      crossTrackError ==
                          calculateCrossTrackError(
                              getSharedPosition(c2.shared, rd["xtePosition"]),
                              getIMUData(c2.shared, rd["xteOrientation"]),
                              c2.nav.targetLatitude)
                      pid == calculatePID(c2.nav,
                                 PidHeadingError(targetBearing,
                                     getIMUData(c2.shared, rd["pidOrientation"]),
                                     crossTrackError))
                      c3  == [c2 EXCEPT !.nav.pidIntegral = pid.pidIntegral,
                                        !.nav.pidLastError = pid.pidLastError,
                                        !.readFailed =
                                            \/ ~rd["xtePosition"]
                                            \/ (rd["xtePosition"] /\ ~rd["xteOrientation"])
                                            \/ ~rd["pidOrientation"]
                                            \/ ~rd["reachedPosition"]]
                      c4  == updateMotorSpeeds(c3, pid.pidOutput)
                  IN  IF getSharedPosition(c4.shared, rd["reachedPosition"]).isValid
                         /\ isWaypointReached(c4)
                      THEN moveToNextWaypointReads(c4, rd["nextCount"])
                      ELSE c4

\* NavigationTask::processNavigation at time t, its SharedData reads
\* succeeding or timing out as rd says, the waypoint store left alone
\* meanwhile
processNavigationReads(c, t, rd) == processNavigationOver(c, t, rd, FALSE)

\* NavigationTask::processNavigation at time t, every read getting its lock
processNavigation(c, t) == processNavigationReads(c, t, ReadsSucceed)

\* the safety check of run() that never stops the rover
NavSafetyStop_Never(c) == FALSE

\* the safety check of run() stops the rover
NavSafetyStop(c) ==
    /\ ObstacleDetected(c.shared.roverState.frontObstacleDistance)
    /\ c.nav.isNavigating

\* one iteration of the loop of NavigationTask::run, millis() reading t, the
\* reads of its guidance tick succeeding or timing out as rd says, a
\* concurrent clearWaypoints() falling into the tick or not
NavRunIterationOver(c, t, rd, cleared) ==
    LET c1 == IF NavSafetyStop(c) THEN stopNavigation(c) ELSE c
        c2 == IF c1.nav.isNavigating /\ USub(t, c1.nav.lastPIDUpdate) >= pidInterval
              THEN [c1 EXCEPT !.motor = update(c1.motor, t),
                              !.nav.lastPIDUpdate = t]
              ELSE c1
    IN  IF isManualModeActive(c2.shared)
        THEN stopNavigation(c2)
        ELSE IF c2.nav.isNavigating
        THEN processNavigationOver(c2, t, rd, cleared)
        ELSE c2

\* one iteration of the loop of NavigationTask::run, millis() reading t, the
\* reads of its guidance tick succeeding or timing out as rd says
NavRunIterationReads(c, t, rd) == NavRunIterationOver(c, t, rd, FALSE)

\* one iteration of the loop of NavigationTask::run, every read getting its lock
NavRunIteration(c, t) == NavRunIterationReads(c, t, ReadsSucceed)

\* NavigationTask::initialize, on the way into run()
NavTaskInitialize(c) ==
    [c EXCEPT !.motor = initialize(c.motor, 3, 3),
              !.nav.pc = "run",
              !.nav.isNavigating = FALSE,
              !.nav.currentWaypointIndex = 0,
              !.nav.pidIntegral = 0,
              !.nav.pidLastError = 0]

(***************************************************************************)
(* WiFiTask: the mission protocol handlers                                 *)
(***************************************************************************)
\* SharedData::setMissionState
setMissionState(sh, state) == [sh EXCEPT !.roverState.missionState = state]

\* what getWaypointCount returns to addWaypoint: the caller holds
\* waypointsMutex, a plain (non-recursive) mutex, so the take inside
\* getWaypointCount times out and the count stays at its initial value
NestedWaypointCount(sh) == 0

\* SharedData::addWaypoint
addWaypoint(sh, waypoint) ==
    LET count == NestedWaypointCount(sh)
    IN  IF count < MAX_WAYPOINTS
        THEN [sh EXCEPT !.waypoints[count] = waypoint]
        ELSE sh

\* the loop of WiFiTask::processWaypoints over the JSON array; an element is
\* well formed (ok, with its latitude) or not
RECURSIVE AddJsonWaypoints(_, _, _)
AddJsonWaypoints(sh, waypoints, count) ==
    IF waypoints = <<>> \/ count >= MAX_WAYPOINTS
    THEN sh
    ELSE LET w == Head(waypoints)
         IN  IF w.ok
             THEN AddJsonWaypoints(
                      addWaypoint(sh, [DefaultWaypoint EXCEPT !.latitude = w.lat]),
                      Tail(waypoints), count + 1)
             ELSE sh

\* WiFiTask::processWaypoints
processWaypoints(sh, waypoints) == AddJsonWaypoints(clearWaypoints(sh), waypoints, 0)

\* steps 1 to 5 of processUploadMission and of processStartMission
StoreMission(sh, payload) ==
    LET s1 == [sh EXCEPT !.missionId = payload.mission_id]
        s2 == processWaypoints(s1, payload.waypoints)
        s3 == [s2 EXCEPT !.missionParams = "uploaded"]
    IN  setMissionState(s3, "MISSION_PLANNED")

\* WiFiTask::processUploadMission
processUploadMission(c, payload) ==
    IF ~payload.complete
    THEN c
    ELSE [c EXCEPT !.shared = StoreMission(c.shared, payload)]

\* WiFiTask::processStartMission
processStartMission(c, payload) ==
    IF ~payload.complete
    THEN c
    ELSE startNavigation([c EXCEPT !.shared = StoreMission(c.shared, payload)])

\* the RoverState.isNavigating write of the pause / abort / resume / start /
\* stop handlers
setRoverNavigating(sh, navigating) == [sh EXCEPT !.roverState.isNavigating = navigating]

\* WiFiTask::processPauseMission
processPauseMission(sh) == setRoverNavigating(setMissionState(sh, "MISSION_PAUSED"), FALSE)

\* WiFiTask::processAbortMission
processAbortMission(sh) == setRoverNavigating(setMissionState(sh, "MISSION_ABORTED"), FALSE)

\* WiFiTask::processResumeMission
processResumeMission(sh) == setRoverNavigating(setMissionState(sh, "MISSION_ACTIVE"), TRUE)

(***************************************************************************)
(* Actions of the navigation task, the sensors and the command intake.     *)
(***************************************************************************)
\* the clock of the navigation specifications stops at this time
MaxNavTime == 130
\* waypoint slots written through SharedData::setWaypoint: 0 .. MaxSlots - 1
MaxSlots == 2
\* waypoints in one uploaded mission
MaxUpload == 2

\* latitudes along the meridian, decimetres: waypoints and GPS fixes
LatitudesDM == { 0, 10 }
\* compass headings the IMU reports, degrees
Headings == { 0, 90 }

\* navigationTaskFunction calling initialize() before run()
NavInitialize ==
    /\ nav.pc = "created"
    /\ LET c == NavTaskInitialize(NavContext(nav, motor, shared))
       IN  /\ nav' = c.nav
           /\ motor' = c.motor
    /\ obs' = Observe("initialize")
    /\ UNCHANGED <<now, manual, shared, commandQueue, tof>>

\* what the observation keeps of one iteration of NavigationTask::run
ObserveNavIteration(c, c2) ==
    LET obstacle == ObstacleDetected(c.shared.roverState.frontObstacleDistance)
    IN  [obs EXCEPT
            !.lastOp = "NavigationTask::run",
            !.afterStop = FALSE,
            !.iteration =
                [ obstacle     |-> obstacle,
                  wasMoving    |-> c.nav.isNavigating,
                  wasDirection |-> "",
                  stopCalled   |-> c2.stopCalled,
                  timedOut     |-> FALSE,
                  guided       |-> c2.guided,
                  finalReached |-> c2.finalReached,
                  missionWas   |-> c.shared.roverState.missionState ],
            !.obstacleStopped = IF obstacle /\ c.nav.isNavigating THEN TRUE ELSE @ ]

\* one iteration of the loop of NavigationTask::run and its vTaskDelay
NavIteration ==
    /\ nav.pc = "run"
    /\ now < MaxNavTime
    /\ LET c  == NavContext(nav, motor, shared)
           c2 == NavRunIteration(c, now)
       IN  /\ nav' = c2.nav
           /\ motor' = c2.motor
           /\ shared' = c2.shared
           /\ obs' = ObserveNavIteration(c, c2)
    /\ now' = (now + NAV_LOOP_DELAY_MS) % ClockModulus
    /\ UNCHANGED <<manual, commandQueue, tof>>

\* GPSTask publishing a fix
PublishPosition ==
    \E lat \in LatitudesDM :
        /\ shared' = [shared EXCEPT !.currentPosition = [ latitude |-> lat, isValid |-> TRUE ]]
        /\ UNCHANGED <<now, motor, nav, manual, commandQueue, tof, obs>>

\* IMUTask publishing an orientation sample
PublishHeading ==
    \E h \in Headings :
        /\ shared' = [shared EXCEPT !.currentIMUData = [ heading |-> h, isValid |-> TRUE ]]
        /\ UNCHANGED <<now, motor, nav, manual, commandQueue, tof, obs>>

\* the route stored through setWaypoint: one waypoint every metre northwards
RouteLatitude(index) == 10 * index

\* a caller of SharedData::setWaypoint storing Waypoint(lat, lon)
SetWaypoint ==
    \E index \in 0 .. (MaxSlots - 1) :
        /\ shared' = setWaypoint(shared, index, ValidWaypoint(RouteLatitude(index)))
        /\ UNCHANGED <<now, motor, nav, manual, commandQueue, tof, obs>>

\* the observation after a command that may have started navigation
ObserveStart(op, c2, count) ==
    [obs EXCEPT !.lastOp = op,
                !.afterStop = FALSE,
                !.uploaded = count,
                !.obstacleStopped = IF c2.nav.isNavigating /\ ~nav.isNavigating
                                    THEN FALSE ELSE @]

\* a caller of NavigationTask::startNavigation
StartNavigation ==
    /\ nav.pc = "run"
    /\ LET c2 == startNavigation(NavContext(nav, motor, shared))
       IN  /\ nav' = c2.nav
           /\ shared' = c2.shared
           /\ obs' = ObserveStart("startNavigation", c2, obs.uploaded)
    /\ UNCHANGED <<now, motor, manual, commandQueue, tof>>

\* the JSON waypoints of a mission payload: well formed or not
JsonWaypoints ==
    { [ok |-> TRUE, lat |-> lat] : lat \in LatitudesDM } \cup { [ok |-> FALSE, lat |-> 0] }

\* the waypoint arrays of the payloads tried
WaypointArrays ==
    UNION { [1 .. n -> JsonWaypoints] : n \in 1 .. MaxUpload }

\* mission payloads: complete with a waypoint array, or lacking a field
MissionPayloads ==
    { [complete |-> TRUE, mission_id |-> "mission-1", waypoints |-> w] : w \in WaypointArrays }
        \cup { [complete |-> FALSE, mission_id |-> "", waypoints |-> <<>>] }

\* the number of waypoints of a payload whose waypoints are all well formed,
\* 0 for any other payload
ValidUploadCount(payload) ==
    IF payload.complete /\ \A i \in 1 .. Len(payload.waypoints) : payload.waypoints[i].ok
    THEN Len(payload.waypoints)
    ELSE 0

\* a complete payload one of whose waypoints lacks lat/lon
MalformedUpload(payload) ==
    payload.complete /\ \E i \in 1 .. Len(payload.waypoints) : ~payload.waypoints[i].ok

\* the command "upload_mission"
ProcessUploadMission ==
    \E payload \in MissionPayloads :
        /\ shared' = processUploadMission(NavContext(nav, motor, shared), payload).shared
        /\ obs' = [obs EXCEPT !.lastOp = "upload_mission", !.afterStop = FALSE,
                              !.uploaded = ValidUploadCount(payload),
                              !.malformed = MalformedUpload(payload)]
        /\ UNCHANGED <<now, motor, nav, manual, commandQueue, tof>>

\* the command "start_mission"
ProcessStartMission ==
    \E payload \in MissionPayloads :
        LET c2 == processStartMission(NavContext(nav, motor, shared), payload)
        IN  /\ nav' = c2.nav
            /\ shared' = c2.shared
            /\ obs' = [ObserveStart("start_mission", c2, ValidUploadCount(payload))
                          EXCEPT !.malformed = MalformedUpload(payload)]
            /\ UNCHANGED <<now, motor, manual, commandQueue, tof>>

\* the command "pause_mission"
ProcessPauseMission ==
    /\ shared' = processPauseMission(shared)
    /\ obs' = Observe("pause_mission")
    /\ UNCHANGED <<now, motor, nav, manual, commandQueue, tof>>

\* the command "abort_mission"
ProcessAbortMission ==
    /\ shared' = processAbortMission(shared)
    /\ obs' = Observe("abort_mission")
    /\ UNCHANGED <<now, motor, nav, manual, commandQueue, tof>>

\* the command "resume_mission"
ProcessResumeMission ==
    /\ shared' = processResumeMission(shared)
    /\ obs' = Observe("resume_mission")
    /\ UNCHANGED <<now, motor, nav, manual, commandQueue, tof>>

(***************************************************************************)
(* Navigation specification: the loop of NavigationTask::run with waypoints *)
(* stored through SharedData::setWaypoint and navigation started through   *)
(* NavigationTask::startNavigation, the sensors publishing position,       *)
(* heading and range, and the mission being resumed.                       *)
(***************************************************************************)
NextNav ==
    \/ NavInitialize
    \/ NavIteration
    \/ PublishPosition
    \/ PublishHeading
    \/ PublishRange
    \/ SetWaypoint
    \/ StartNavigation
    \/ ProcessResumeMission

SpecNav == Init /\ [][NextNav]_vars

GuidanceTick ==
    /\ obs'.lastOp = "NavigationTask::run"
    /\ nav.pc = "run"
    /\ nav.lastUpdateTime # now
    /\ nav'.lastUpdateTime = now

(***************************************************************************)
(* C12: in a guidance tick where the position or the orientation snapshot  *)
(* is invalid, no motor command is sent to the drive (setMotorSpeeds and   *)
(* stopMotors are not called, the targets the drive holds stay) and the    *)
(* navigation state (navigating flag, waypoint index, heading-PID integral *)
(* and last error, mission state) is unchanged.                            *)
(***************************************************************************)
C12_InvalidSnapshotSkipsTick ==
    [][ (GuidanceTick
            /\ (~shared.currentPosition.isValid \/ ~shared.currentIMUData.isValid))
        => /\ ~obs'.iteration.guided
           /\ ~obs'.iteration.stopCalled
           /\ DriveCommand(motor') = DriveCommand(motor)
           /\ nav'.isNavigating = nav.isNavigating
           /\ nav'.currentWaypointIndex = nav.currentWaypointIndex
           /\ nav'.pidIntegral = nav.pidIntegral
           /\ nav'.pidLastError = nav.pidLastError
           /\ shared'.roverState = shared.roverState ]_vars

\* a guidance tick has just run on a navigation with waypoints, with a valid
\* position but no valid orientation, and issued no command
C12_Witness ==
    /\ obs.lastOp = "NavigationTask::run"
    /\ nav.isNavigating
    /\ nav.lastUpdateTime > 0
    /\ USub(now, nav.lastUpdateTime) = NAV_LOOP_DELAY_MS
    /\ ~obs.iteration.guided
    /\ shared.currentPosition.isValid /\ ~shared.currentIMUData.isValid
    /\ hasWaypoints(shared)

(***************************************************************************)
(* Sensor-loss specification: the navigation loop with a position source   *)
(* and an orientation source that publish timestamped samples and then     *)
(* fall silent.                                                            *)
(***************************************************************************)
\* the sources publish no sample after this time
SourcesStopAt == 10
\* the periods of the sources, milliseconds
IMU_UPDATE_RATE == 100
GPS_UPDATE_RATE == 1000

\* GPSTask::updatePosition publishing a fix stamped millis()
PublishPositionStamped ==
    \E lat \in LatitudesDM :
        /\ now <= SourcesStopAt
        /\ shared' = [shared EXCEPT !.currentPosition = [ latitude |-> lat, isValid |-> TRUE ]]
        /\ obs' = [obs EXCEPT !.sampleTime.position = now]
        /\ UNCHANGED <<now, motor, nav, manual, commandQueue, tof>>

\* IMUTask publishing an orientation sample stamped millis(), valid or not
PublishOrientationStamped ==
    \E h \in Headings, valid \in BOOLEAN :
        /\ now <= SourcesStopAt
        /\ shared' = [shared EXCEPT !.currentIMUData = [ heading |-> h, isValid |-> valid ]]
        /\ obs' = [obs EXCEPT !.sampleTime.orientation = now]
        /\ UNCHANGED <<now, motor, nav, manual, commandQueue, tof>>

NextSensorLoss ==
    \/ NavInitialize
    \/ NavIteration
    \/ PublishPositionStamped
    \/ PublishOrientationStamped
    \/ SetWaypoint
    \/ StartNavigation

SpecSensorLoss == Init /\ [][NextSensorLoss]_vars

(***************************************************************************)
(* C13: a guidance tick issues a motion command only from position and     *)
(* orientation samples that are both valid and not stale, the age of a     *)
(* sample at the tick being at most the period of its source: once a       *)
(* source stops publishing, guidance stops issuing motion commands.        *)
(***************************************************************************)
C13_GuidanceUsesFreshSamples ==
    (obs.lastOp = "NavigationTask::run" /\ obs.iteration.guided)
    => /\ shared.currentPosition.isValid /\ shared.currentIMUData.isValid
       /\ USub(nav.lastUpdateTime, obs.sampleTime.position) <= GPS_UPDATE_RATE
       /\ USub(nav.lastUpdateTime, obs.sampleTime.orientation) <= IMU_UPDATE_RATE

(***************************************************************************)
(* Lock-timeout specification: the navigation loop when a SharedData read  *)
(* of a guidance tick can time out on its mutex.                           *)
(***************************************************************************)
\* the outcomes tried for the reads of one tick: all succeed, or one times out
ReadOutcomes ==
    { ReadsSucceed }
        \cup { [ReadsSucceed EXCEPT ![r] = FALSE] : r \in ReadNames }

\* one iteration of the loop of NavigationTask::run and its vTaskDelay, the
\* reads of the guidance tick succeeding or timing out
NavIterationReads ==
    \E rd \in ReadOutcomes :
        /\ nav.pc = "run"
        /\ now < MaxNavTime
        /\ LET c  == NavContext(nav, motor, shared)
               c2 == NavRunIterationReads(c, now, rd)
           IN  /\ nav' = c2.nav
               /\ motor' = c2.motor
               /\ shared' = c2.shared
               /\ obs' = [ObserveNavIteration(c, c2) EXCEPT !.readFailed = c2.readFailed]
        /\ now' = (now + NAV_LOOP_DELAY_MS) % ClockModulus
        /\ UNCHANGED <<manual, commandQueue, tof>>

NextLocks ==
    \/ NavInitialize
    \/ NavIterationReads
    \/ PublishPosition
    \/ PublishHeading
    \/ SetWaypoint
    \/ StartNavigation

SpecLocks == Init /\ [][NextLocks]_vars

(***************************************************************************)
(* C14: if a SharedData read made during a guidance tick (position,        *)
(* orientation, waypoint, waypoint count) times out on its lock, the tick  *)
(* is treated like an invalid-data cycle: no motor command is issued (none *)
(* computed from defaulted values) and the navigating flag and the         *)
(* waypoint index do not change.                                           *)
(***************************************************************************)
C14_LockTimeoutSkipsTick ==
    [][ (GuidanceTick /\ obs'.readFailed)
        => /\ ~obs'.iteration.guided
           /\ ~obs'.iteration.stopCalled
           /\ DriveCommand(motor') = DriveCommand(motor)
           /\ nav'.isNavigating = nav.isNavigating
           /\ nav'.currentWaypointIndex = nav.currentWaypointIndex ]_vars

(***************************************************************************)
(* SharedData accessors and their mutexes.  Each accessor takes one mutex, *)
(* with a wait of 100 ms or with portMAX_DELAY, and on a timeout hands     *)
(* back the value given here.                                              *)
(***************************************************************************)
\* pdMS_TO_TICKS(100), milliseconds
LOCK_WAIT_MS == 100

Accessor(mutex, bounded, onTimeout) ==
    [ mutex |-> mutex, bounded |-> bounded, onTimeout |-> onTimeout ]

Accessors ==
    [ getPosition           |-> Accessor("positionMutex", TRUE, "unavailable"),
      setPosition           |-> Accessor("positionMutex", TRUE, "unavailable"),
      getIMUData            |-> Accessor("imuMutex", TRUE, "unavailable"),
      setIMUData            |-> Accessor("imuMutex", TRUE, "unavailable"),
      getWaypoint           |-> Accessor("waypointsMutex", TRUE, "unavailable"),
      setWaypoint           |-> Accessor("waypointsMutex", TRUE, "unavailable"),
      clearWaypoints        |-> Accessor("waypointsMutex", TRUE, "unavailable"),
      getWaypointCount      |-> Accessor("waypointsMutex", TRUE, "0"),
      getRoverState         |-> Accessor("stateMutex", TRUE, "unavailable"),
      setRoverState         |-> Accessor("stateMutex", TRUE, "unavailable"),
      setMissionState       |-> Accessor("stateMutex", FALSE, "never"),
      getMissionState       |-> Accessor("stateMutex", FALSE, "never"),
      updateMissionProgress |-> Accessor("stateMutex", FALSE, "never"),
      setMissionParameters  |-> Accessor("missionMutex", FALSE, "never"),
      getMissionParameters  |-> Accessor("missionMutex", FALSE, "never"),
      setMissionId          |-> Accessor("missionMutex", FALSE, "never") ]

AccessorNames == DOMAIN Accessors

\* the accessors of the mission data guarded by missionMutex
MissionParameterPath(a) == Accessors[a].mutex = "missionMutex"

\* the store after accessor a has run with its mutex taken; the setters are
\* given one value each
AccessorEffect(sh, a) ==
    CASE a = "setPosition"     -> [sh EXCEPT !.currentPosition = [ latitude |-> 10, isValid |-> TRUE ]]
      [] a = "setIMUData"      -> [sh EXCEPT !.currentIMUData = [ heading |-> 90, isValid |-> TRUE ]]
      [] a = "setWaypoint"     -> setWaypoint(sh, 0, ValidWaypoint(10))
      [] a = "clearWaypoints"  -> clearWaypoints(sh)
      [] a = "setRoverState"   -> setFrontObstacleDistance(sh, 30)
      [] a = "setMissionState" -> setMissionState(sh, "MISSION_PLANNED")
      [] a = "setMissionParameters" -> [sh EXCEPT !.missionParams = "uploaded"]
      [] a = "setMissionId"    -> [sh EXCEPT !.missionId = "mission-1"]
      [] OTHER                 -> sh

\* the call of accessor a returns result
AccessorReturns(a, result, timedOut) ==
    obs' = [obs EXCEPT !.lastOp = "accessor",
                       !.afterStop = FALSE,
                       !.lastCall = [ accessor |-> a, result |-> result,
                                      timedOut |-> timedOut ]]

(***************************************************************************)
(* Accessor specification: one task calling the accessors while other      *)
(* tasks take the mutexes and keep them for any length of time.            *)
(***************************************************************************)
\* the clock of the accessor specification stops at this time
MaxLockTime == 120
\* accessor calls followed in one run
MaxCalls == 2

\* another task takes a mutex; one mutex is held at a time
HoldMutex ==
    \E mu \in DOMAIN shared.mutexHeld :
        /\ \A other \in DOMAIN shared.mutexHeld : ~shared.mutexHeld[other]
        /\ shared' = [shared EXCEPT !.mutexHeld[mu] = TRUE]
        /\ UNCHANGED <<now, motor, nav, manual, commandQueue, tof, obs>>

\* the other task gives the mutex back while nobody waits for it
ReleaseMutex ==
    \E mu \in DOMAIN shared.mutexHeld :
        /\ shared.mutexHeld[mu]
        /\ shared.blocked.accessor = "none"
        /\ shared' = [shared EXCEPT !.mutexHeld[mu] = FALSE]
        /\ UNCHANGED <<now, motor, nav, manual, commandQueue, tof, obs>>

\* the task calls an accessor: with the mutex free it runs and returns, with
\* the mutex held the call blocks in xSemaphoreTake
CallAccessor ==
    \E a \in AccessorNames :
        /\ shared.blocked.accessor = "none"
        /\ obs.calls < MaxCalls
        /\ IF shared.mutexHeld[Accessors[a].mutex]
           THEN /\ shared' = [shared EXCEPT !.blocked = [ accessor |-> a, since |-> now ]]
                /\ obs' = [obs EXCEPT !.calls = @ + 1]
           ELSE /\ shared' = AccessorEffect(shared, a)
                /\ obs' = [obs EXCEPT !.lastOp = "accessor",
                                      !.afterStop = FALSE,
                                      !.calls = @ + 1,
                                      !.lastCall = [ accessor |-> a, result |-> "ok",
                                                     timedOut |-> FALSE ]]
        /\ UNCHANGED <<now, motor, nav, manual, commandQueue, tof>>

\* the wait of a blocked call with a bounded wait has run out
WaitExpired(sh, t) ==
    /\ sh.blocked.accessor # "none"
    /\ Accessors[sh.blocked.accessor].bounded
    /\ USub(t, sh.blocked.since) >= LOCK_WAIT_MS

\* xSemaphoreTake gives up: the accessor returns without having run
AccessorTimeout ==
    /\ WaitExpired(shared, now)
    /\ shared' = [shared EXCEPT !.blocked = [ accessor |-> "none", since |-> 0 ]]
    /\ AccessorReturns(shared.blocked.accessor,
                       Accessors[shared.blocked.accessor].onTimeout, TRUE)
    /\ UNCHANGED <<now, motor, nav, manual, commandQueue, tof>>

\* the holder gives the mutex to the blocked call, which runs and returns
AccessorGranted ==
    /\ shared.blocked.accessor # "none"
    /\ ~WaitExpired(shared, now)
    /\ shared' = [AccessorEffect(shared, shared.blocked.accessor)
                      EXCEPT !.blocked = [ accessor |-> "none", since |-> 0 ]]
    /\ AccessorReturns(shared.blocked.accessor, "ok", FALSE)
    /\ UNCHANGED <<now, motor, nav, manual, commandQueue, tof>>

\* time passes while a call is blocked; a bounded wait that runs out ends
\* before the clock moves on
LockWaitTick ==
    /\ now < MaxLockTime
    /\ shared.blocked.accessor # "none"
    /\ ~WaitExpired(shared, now)
    /\ LET remaining == IF shared.blocked.accessor # "none"
                            /\ Accessors[shared.blocked.accessor].bounded
                         THEN LOCK_WAIT_MS - USub(now, shared.blocked.since)
                         ELSE ClockStep
           step      == IF ClockStep < remaining THEN ClockStep ELSE remaining
       IN  now' = (now + step) % ClockModulus
    /\ UNCHANGED <<motor, nav, manual, shared, commandQueue, tof, obs>>

NextAccessors ==
    \/ HoldMutex
    \/ ReleaseMutex
    \/ CallAccessor
    \/ AccessorTimeout
    \/ AccessorGranted
    \/ LockWaitTick

SpecAccessors == Init /\ [][NextAccessors]_vars

(***************************************************************************)
(* C15: every SharedData accessor outside the mission-parameter path (the  *)
(* accessors of the position, orientation, waypoint and rover/mission-     *)
(* status records) takes its lock with a bounded wait and reports          *)
(* 'unavailable' on a timeout, so the call returns even if another task    *)
(* never releases the lock: no such call is still blocked after the wait,  *)
(* and one that timed out returned 'unavailable'.                          *)
(***************************************************************************)
C15_AccessorsReturnWithinBoundedWait ==
    /\ (shared.blocked.accessor # "none"
            /\ ~MissionParameterPath(shared.blocked.accessor))
          => USub(now, shared.blocked.since) <= LOCK_WAIT_MS
    /\ (obs.lastCall.timedOut /\ ~MissionParameterPath(obs.lastCall.accessor))
          => obs.lastCall.result = "unavailable"

(***************************************************************************)
(* Angle specification: normalizeAngle applied to one angle, any whole     *)
(* number of degrees within four turns of zero.                            *)
(***************************************************************************)
\* the angles handed to normalizeAngle are within -MaxAngle .. MaxAngle
MaxAngle == 1440

InitAngles ==
    /\ now = 0
    /\ motor = NewMotorController
    /\ nav = NewNavigationTask
    /\ manual = NewManualControlTask
    /\ shared = NewSharedData
    /\ commandQueue = NullQueue
    /\ tof = NewTOFTask
    /\ \E x \in (-MaxAngle) .. MaxAngle :
          obs = [NewObs EXCEPT !.angle.input = x]

\* a caller normalizes the angle, and normalizes what it got once more
NormalizeAngle ==
    /\ ~obs.angle.applied
    /\ obs' = [obs EXCEPT !.lastOp = "normalizeAngle",
                          !.angle.applied = TRUE,
                          !.angle.result = normalizeAngle(obs.angle.input),
                          !.angle.again =
                              normalizeAngle(normalizeAngle(obs.angle.input))]
    /\ UNCHANGED <<now, motor, nav, manual, shared, commandQueue, tof>>

NextAngles == NormalizeAngle

SpecAngles == InitAngles /\ [][NextAngles]_vars

(***************************************************************************)
(* C24: normalizeAngle(x) is in (-180, 180], is congruent to x modulo 360, *)
(* and normalizeAngle(normalizeAngle(x)) = normalizeAngle(x), for every x. *)
(***************************************************************************)
C24_NormalizeAngleCanonical ==
    obs.angle.applied
        => /\ obs.angle.result > -180 /\ obs.angle.result <= 180
           /\ (obs.angle.result - obs.angle.input) % 360 = 0
           /\ obs.angle.again = obs.angle.result

\* an angle more than a turn below zero whose remainder is exactly -180 came
\* back as 180
C24_Witness ==
    /\ obs.angle.applied
    /\ obs.angle.input < -360
    /\ obs.angle.input % 360 = 180
    /\ obs.angle.result = 180

(***************************************************************************)
(* Heading specification: guidance with the rover some metres away from    *)
(* its first waypoint, so that the cross-track correction is large.        *)
(***************************************************************************)
\* GPS fixes south of the route, decimetres: 9 m and 50 m from the waypoint
\* at latitude 0
FarLatitudesDM == { -90, -500 }

\* GPSTask publishing a fix away from the route
PublishPositionFar ==
    \E lat \in FarLatitudesDM :
        /\ shared' = [shared EXCEPT !.currentPosition = [ latitude |-> lat, isValid |-> TRUE ]]
        /\ UNCHANGED <<now, motor, nav, manual, commandQueue, tof, obs>>

NextHeading ==
    \/ NavInitialize
    \/ NavIteration
    \/ PublishPositionFar
    \/ PublishHeading
    \/ SetWaypoint
    \/ StartNavigation

SpecHeading == Init /\ [][NextHeading]_vars

(***************************************************************************)
(* C23: in every guidance tick the heading error fed to the heading PID,   *)
(* after the cross-track bias K_xte * crossTrackError is added, lies in    *)
(* (-180, 180] degrees.  A guided tick stores that error as pidLastError.  *)
(***************************************************************************)
C23_HeadingErrorInHalfOpenTurn ==
    (obs.lastOp = "NavigationTask::run" /\ obs.iteration.guided)
        => (nav.pidLastError > -180 /\ nav.pidLastError <= 180)

(***************************************************************************)
(* Pause specification: navigation started on stored waypoints, the        *)
(* sensors publishing, and the pause, abort and resume commands of the     *)
(* command intake.                                                         *)
(***************************************************************************)
NextPause ==
    \/ NavInitialize
    \/ NavIteration
    \/ PublishPosition
    \/ PublishHeading
    \/ SetWaypoint
    \/ StartNavigation
    \/ ProcessPauseMission
    \/ ProcessAbortMission
    \/ ProcessResumeMission

SpecPause == Init /\ [][NextPause]_vars

(***************************************************************************)
(* C29: guidance issues motor commands only while the mission is Active:   *)
(* after a pause or abort command is accepted the navigation loop sends no *)
(* further setMotorSpeeds command and the drive is stopped, until a resume *)
(* or start is accepted.  Stated on the loop iteration that follows the    *)
(* pause or abort with no other command in between: it leaves both wheel   *)
(* targets at zero.                                                        *)
(***************************************************************************)
C29_NoGuidanceAfterPauseOrAbort ==
    [][ (obs.lastOp \in { "pause_mission", "abort_mission" }
            /\ obs'.lastOp = "NavigationTask::run")
        => /\ motor'.pidLeft.targetSpeed = 0
           /\ motor'.pidRight.targetSpeed = 0 ]_vars

(***************************************************************************)
(* Override specification: the loop of NavigationTask::run with navigation *)
(* started on stored waypoints while the command intake switches manual    *)
(* mode on and off in the shared store.                                    *)
(***************************************************************************)
\* WiFiTask::processEnableManual
processEnableManual(sh) == setManualControlState(sh, TRUE, FALSE, "", 0)

\* WiFiTask::processDisableManual
processDisableManual(sh) == setManualControlState(sh, FALSE, FALSE, "", 0)

\* the command "enable_manual"
ProcessEnableManual ==
    /\ shared' = processEnableManual(shared)
    /\ obs' = Observe("enable_manual")
    /\ UNCHANGED <<now, motor, nav, manual, commandQueue, tof>>

\* the command "disable_manual"
ProcessDisableManual ==
    /\ shared' = processDisableManual(shared)
    /\ obs' = Observe("disable_manual")
    /\ UNCHANGED <<now, motor, nav, manual, commandQueue, tof>>

NextOverride ==
    \/ NavInitialize
    \/ NavIteration
    \/ PublishPosition
    \/ PublishHeading
    \/ SetWaypoint
    \/ StartNavigation
    \/ ProcessEnableManual
    \/ ProcessDisableManual

SpecOverride == Init /\ [][NextOverride]_vars

\* the step is an iteration of the navigation loop, the only step of this
\* specification that advances the clock
NavLoopStep == now' # now /\ obs'.lastOp = "NavigationTask::run"

(***************************************************************************)
(* C30: while manual mode is active in the shared store the guidance loop  *)
(* issues no motor commands.  An iteration of the navigation loop that     *)
(* finds manual mode active does not run processNavigation; if navigation  *)
(* was active it calls stopNavigation (the drive is stopped with both      *)
(* targets zero and the navigating flags are cleared), and if navigation   *)
(* was not active it leaves the motor controller as it was.                *)
(***************************************************************************)
C30_ManualModeOverridesGuidance ==
    [][ (shared.manualControl.manualModeActive /\ NavLoopStep)
        => /\ ~obs'.iteration.guided
           /\ ~nav'.isNavigating
           /\ nav.isNavigating
                => /\ obs'.iteration.stopCalled
                   /\ motor'.motorsStopped
                   /\ motor'.pidLeft.targetSpeed = 0
                   /\ motor'.pidRight.targetSpeed = 0
                   /\ ~shared'.roverState.isNavigating
           /\ ~nav.isNavigating => motor' = motor ]_vars

\* manual mode was switched on while guidance was driving the wheels, and
\* the next iteration of the loop stopped navigation
C30_Witness ==
    /\ obs.lastOp = "NavigationTask::run"
    /\ shared.manualControl.manualModeActive
    /\ obs.iteration.wasMoving
    /\ ~obs.iteration.obstacle
    /\ obs.iteration.stopCalled
    /\ ~obs.iteration.guided
    /\ ~nav.isNavigating
    /\ motor.motorsStopped
    /\ nav.pidLastError # 0

(***************************************************************************)
(* Store specification: the waypoint store of SharedData under every       *)
(* sequence of clearWaypoints and addWaypoint calls with valid waypoints.  *)
(***************************************************************************)
\* addWaypoint calls after one clearWaypoints
MaxAdds == 4

\* latitudes of the waypoints added, decimetres
StoreLatitudesDM == { 10, 20, 30 }

\* the i-th waypoint added since the store was cleared, i from 0
AddedWaypoint(i) == [ latitude |-> obs.added[i + 1], isValid |-> TRUE ]

\* a caller of SharedData::clearWaypoints
StoreClear ==
    /\ shared' = clearWaypoints(shared)
    /\ obs' = [Observe("clearWaypoints") EXCEPT !.added = <<>>]
    /\ UNCHANGED <<now, motor, nav, manual, commandQueue, tof>>

\* a caller of SharedData::addWaypoint with a valid waypoint
StoreAdd ==
    \E lat \in StoreLatitudesDM :
        /\ obs.lastOp \in { "clearWaypoints", "addWaypoint" }
        /\ Len(obs.added) < MaxAdds
        /\ shared' = addWaypoint(shared, [ latitude |-> lat, isValid |-> TRUE ])
        /\ obs' = [Observe("addWaypoint") EXCEPT !.added = Append(@, lat)]
        /\ UNCHANGED <<now, motor, nav, manual, commandQueue, tof>>

NextStore == StoreClear \/ StoreAdd

SpecStore == Init /\ [][NextStore]_vars

(***************************************************************************)
(* C31: on a cleared waypoint store, k successive addWaypoint calls with   *)
(* valid waypoints (k <= MAX_WAYPOINTS) store the i-th waypoint at index   *)
(* i: afterwards getWaypointCount() is k and getWaypoint(i) returns the    *)
(* i-th waypoint added.                                                    *)
(***************************************************************************)
C31_AddWaypointAppends ==
    obs.lastOp = "addWaypoint"
        => /\ getWaypointCount(shared) = Len(obs.added)
           /\ \A i \in 0 .. (Len(obs.added) - 1) :
                  shared.waypoints[i] = AddedWaypoint(i)

(***************************************************************************)
(* C32: when a guidance tick finds the distance to the current waypoint    *)
(* at or below the waypoint threshold (a distance of zero included) and    *)
(* the waypoint is not the last, the waypoint index advances by exactly    *)
(* one and the heading-PID integral and last error are zero when the tick  *)
(* ends, before the first tick toward the next waypoint; navigation stays  *)
(* active.                                                                 *)
(***************************************************************************)
C32_ReachedWaypointAdvancesAndResets ==
    [][ (/\ GuidanceTick
         /\ obs'.iteration.guided
         /\ shared.currentPosition.isValid
         /\ calculateDistance(shared.currentPosition.latitude,
                              shared.waypoints[nav.currentWaypointIndex].latitude)
                <= WAYPOINT_THRESHOLD
         /\ nav.currentWaypointIndex + 1 < getWaypointCount(shared))
        => /\ nav'.currentWaypointIndex = nav.currentWaypointIndex + 1
           /\ nav'.pidIntegral = 0
           /\ nav'.pidLastError = 0
           /\ nav'.isNavigating ]_vars

\* a tick standing on the first of two waypoints (distance zero) and facing
\* east, a quarter turn off the bearing, has advanced to the second waypoint
C32_Witness ==
    /\ obs.lastOp = "NavigationTask::run"
    /\ obs.iteration.guided
    /\ ~obs.iteration.finalReached
    /\ nav.isNavigating
    /\ nav.currentWaypointIndex = 1
    /\ nav.lastUpdateTime + NAV_LOOP_DELAY_MS = now
    /\ shared.currentPosition.isValid
    /\ shared.currentPosition.latitude = shared.waypoints[0].latitude
    /\ shared.currentIMUData.heading = 90
    /\ nav.pidIntegral = 0
    /\ nav.pidLastError = 0

(***************************************************************************)
(* Preemption specification: the navigation task's call of                 *)
(* MotorController::update() taken in its three parts (the tests on entry, *)
(* the two updatePID calls that fill the locals leftPWM and rightPWM, the  *)
(* writes to the H-bridge pins and PWM channels), with the manual-control  *)
(* task, which runs on the same core at a higher priority, calling         *)
(* stopMotors() or setMotorSpeeds() between any two of them.               *)
(***************************************************************************)
\* one PID interval passes
IntervalPasses ==
    /\ motor.isInitialized
    /\ now < MaxIntervals * MOTOR_PID_INTERVAL_MS
    /\ now' = now + MOTOR_PID_INTERVAL_MS
    /\ UNCHANGED <<motor, obs>>
    /\ OthersUnchangedByDrive

\* update() is entered and passes its tests of isInitialized, pidEnabled and
\* motorsStopped
UpdateEnter ==
    /\ nav.updateCall.pc = "idle"
    /\ ~UpdateSkipped(motor)
    /\ nav' = [nav EXCEPT !.updateCall.pc = "entered"]
    /\ UNCHANGED <<now, motor, manual, shared, commandQueue, tof, obs>>

\* the two updatePID calls of update()
UpdateCompute ==
    /\ nav.updateCall.pc = "entered"
    /\ LET l == updatePID(Gains(motor), motor.pidLeft, motor.leftEncoder,
                          motor.leftStall, now)
           r == updatePID(Gains(motor), motor.pidRight, motor.rightEncoder,
                          motor.rightStall, now)
       IN  /\ motor' = [motor EXCEPT !.pidLeft = l.pid,
                                     !.leftEncoder = l.enc,
                                     !.leftStall = l.stall,
                                     !.pidRight = r.pid,
                                     !.rightEncoder = r.enc,
                                     !.rightStall = r.stall]
           /\ nav' = [nav EXCEPT !.updateCall = [ pc       |-> "computed",
                                                  leftPWM  |-> l.pwmOutput,
                                                  rightPWM |-> r.pwmOutput ]]
    /\ UNCHANGED <<now, manual, shared, commandQueue, tof, obs>>

\* update() applies its locals to the motor outputs and returns
UpdateApply ==
    /\ nav.updateCall.pc = "computed"
    /\ LET leftPWM  == nav.updateCall.leftPWM
           rightPWM == nav.updateCall.rightPWM
       IN  motor' = [motor EXCEPT !.pinsLeft = DirectionPins(leftPWM >= 0),
                                  !.ledcLeft = Abs(leftPWM),
                                  !.pinsRight = DirectionPins(rightPWM >= 0),
                                  !.ledcRight = Abs(rightPWM),
                                  !.leftMotorSpeed = Abs(leftPWM),
                                  !.rightMotorSpeed = Abs(rightPWM)]
    /\ nav' = [nav EXCEPT !.updateCall = NoUpdateCall]
    /\ obs' = Observe("update")
    /\ UNCHANGED <<now, manual, shared, commandQueue, tof>>

NextPreempt ==
    \/ MCInitialize
    \/ MCSetMotorSpeeds
    \/ MCStopMotors
    \/ WheelAdvance
    \/ IntervalPasses
    \/ UpdateEnter
    \/ UpdateCompute
    \/ UpdateApply

SpecPreempt == Init /\ [][NextPreempt]_vars

(***************************************************************************)
(* C33: under any interleaving of the navigation task's update() with a    *)
(* stopMotors() of the manual-control task, once both calls have returned  *)
(* the hardware PWM outputs are zero whenever the stop-lock is set.        *)
(***************************************************************************)
C33_StopLockHoldsOutputsAtZero ==
    (nav.updateCall.pc = "idle" /\ motor.motorsStopped)
        => (motor.ledcLeft = 0 /\ motor.ledcRight = 0)

(***************************************************************************)
(* Manual-drive specification: the loop of ManualControlTask::run fed with *)
(* enable and movement commands, next to the loop of NavigationTask::run,  *)
(* the only caller of MotorController::update().  Both tasks are scheduled *)
(* for ever (each blocks for a bounded time only), so every step of theirs *)
(* that stays enabled is eventually taken; the sender is free to send or   *)
(* not.                                                                    *)
(***************************************************************************)
\* the sender sends no command after this time, so that the command timeout
\* of the last one falls before the clock stops
SendUntil == 40

\* the ManualCommands of the manual-drive specification
DriveCommands ==
    { ControlCommand(TRUE), MoveCommand("forward", 50), MoveCommand("left", 50) }

\* a sender putting a command on the queue while the rover is not moving
SendDriveCommand ==
    \E cmd \in DriveCommands :
        /\ commandQueue.created
        /\ now <= SendUntil
        /\ ~manual.isMoving
        /\ Len(commandQueue.items) < MaxQueued
        /\ Len(commandQueue.items) < MANUAL_CMD_QUEUE_SIZE
        /\ commandQueue' = [commandQueue EXCEPT !.items = Append(@, cmd)]
        /\ UNCHANGED <<now, motor, nav, manual, shared, tof, obs>>

\* one iteration of the loop of NavigationTask::run at the clock reading of
\* the moment
NavLoopPass ==
    /\ nav.pc = "run"
    /\ LET c  == NavContext(nav, motor, shared)
           c2 == NavRunIteration(c, now)
       IN  /\ nav' = c2.nav
           /\ motor' = c2.motor
           /\ shared' = c2.shared
           /\ obs' = ObserveNavIteration(c, c2)
    /\ UNCHANGED <<now, manual, commandQueue, tof>>

NextManualDrive ==
    \/ ManualInitialize
    \/ NavInitialize
    \/ SendDriveCommand
    \/ ManualWait
    \/ ManualReceive
    \/ ManualReceiveTimeout
    \/ NavLoopPass

SpecManualDrive ==
    /\ Init
    /\ [][NextManualDrive]_vars
    /\ WF_vars(ManualInitialize)
    /\ WF_vars(NavInitialize)
    /\ WF_vars(ManualWait)
    /\ WF_vars(ManualReceive)
    /\ WF_vars(ManualReceiveTimeout)
    /\ WF_vars(NavLoopPass)

\* a non-zero movement command has been accepted in manual mode and the
\* closed-loop drive holds its targets, armed and not stop-locked
ManualDriveAccepted ==
    /\ manual.isManualModeActive
    /\ manual.isMoving
    /\ motor.isInitialized
    /\ motor.pidEnabled
    /\ ~motor.motorsStopped
    /\ (motor.pidLeft.targetSpeed # 0 \/ motor.pidRight.targetSpeed # 0)

(***************************************************************************)
(* C35: with closed-loop PID enabled, a valid non-zero manual movement     *)
(* command accepted while manual mode is active eventually produces        *)
(* non-zero PWM on the motor outputs.                                      *)
(***************************************************************************)
C35_ManualCommandEventuallyDrives ==
    ManualDriveAccepted ~> (motor.ledcLeft # 0 \/ motor.ledcRight # 0)

(***************************************************************************)
(* Startup specification: createTasks() creates the manual-control task    *)
(* (xTaskCreatePinnedToCore, above the priority of the caller) and only    *)
(* then calls ManualControlTask::initialize(), which creates the command   *)
(* queue.  The new task enters run() and reaches its first xQueueReceive   *)
(* before or after that call, as the scheduler has it.  A task that has    *)
(* handed a null queue to xQueueReceive goes no further.                   *)
(***************************************************************************)
\* manualControlTaskFunction calls run(), which reaches its first
\* xQueueReceive
ManualTaskStart ==
    /\ manual.pc = "created"
    /\ manual' = [manual EXCEPT
                      !.pc = IF commandQueue.created THEN "run" ELSE "receive_null",
                      !.waitSince = now]
    /\ obs' = Observe("ManualControlTask::run")
    /\ UNCHANGED <<now, motor, nav, shared, commandQueue, tof>>

\* the loop of run() once its first xQueueReceive is on a queue
ManualLoop ==
    /\ manual.pc = "run"
    /\ (ManualWait \/ ManualReceive \/ ManualReceiveTimeout)

NextStartup ==
    \/ ManualTaskStart
    \/ ManualInitialize
    \/ SendManualCommand
    \/ ManualLoop

SpecStartup == Init /\ [][NextStartup]_vars

(***************************************************************************)
(* C36: the manual-control task never waits on its command queue before    *)
(* ManualControlTask::initialize() has created it: the first xQueueReceive *)
(* of run() happens after commandQueue is non-null.                        *)
(***************************************************************************)
C36_QueueCreatedBeforeFirstReceive == manual.pc # "receive_null"

(***************************************************************************)
(* Replace specification: the loop of NavigationTask::run on a stored      *)
(* route (valid waypoints in the slots 0 .. k-1) while the WiFi task, on   *)
(* the other core, handles a mission upload whose clearWaypoints(), the    *)
(* first step of processWaypoints, falls between the hasWaypoints() and    *)
(* the getWaypoint() of a guidance tick.                                   *)
(***************************************************************************)
\* the missions uploaded: complete, with one well-formed waypoint
ReplacementPayloads ==
    { payload \in MissionPayloads :
        /\ payload.complete
        /\ Len(payload.waypoints) = 1
        /\ payload.waypoints[1].ok }

\* the store holding a route of k valid waypoints in the slots 0 .. k-1, one
\* metre apart going north
RouteStored(sh, k) ==
    [sh EXCEPT !.waypoints =
        [i \in WaypointSlots |->
            IF i < k THEN ValidWaypoint(10 * (i + 1)) ELSE DefaultWaypoint]]

\* a caller of SharedData::clearWaypoints and setWaypoint storing a route
StoreRoute ==
    \E k \in 1 .. MaxSlots :
        /\ ~nav.isNavigating
        /\ shared' = RouteStored(shared, k)
        /\ UNCHANGED <<now, motor, nav, manual, commandQueue, tof, obs>>

\* one iteration of the loop of NavigationTask::run during the command
\* "upload_mission": the upload clears the store inside the tick and stores
\* its mission after it
NavIterationAcrossUpload ==
    \E payload \in ReplacementPayloads :
        /\ nav.pc = "run"
        /\ now < MaxNavTime
        /\ LET c  == NavContext(nav, motor, shared)
               c2 == NavRunIterationOver(c, now, ReadsSucceed, TRUE)
           IN  /\ nav' = c2.nav
               /\ motor' = c2.motor
               /\ shared' = StoreMission(c2.shared, payload)
               /\ obs' = [ObserveNavIteration(c, c2) EXCEPT
                              !.uploaded = ValidUploadCount(payload),
                              !.malformed = MalformedUpload(payload)]
        /\ now' = (now + NAV_LOOP_DELAY_MS) % ClockModulus
        /\ UNCHANGED <<manual, commandQueue, tof>>

NextReplace ==
    \/ NavInitialize
    \/ NavIteration
    \/ PublishPosition
    \/ PublishHeading
    \/ StoreRoute
    \/ StartNavigation
    \/ NavIterationAcrossUpload

SpecReplace == Init /\ [][NextReplace]_vars

(***************************************************************************)
(* C37: the target used by a guidance tick is always a valid stored        *)
(* waypoint of the current mission, under any interleaving with a          *)
(* concurrent mission upload: a tick that commands the motors steers       *)
(* toward the waypoint stored at its index when the tick began, and that   *)
(* waypoint is valid, never toward a cleared or invalid slot.              *)
(***************************************************************************)
C37_GuidanceTargetIsStoredWaypoint ==
    [][ (obs'.lastOp = "NavigationTask::run" /\ now' # now /\ obs'.iteration.guided)
        => /\ shared.waypoints[nav.currentWaypointIndex].isValid
           /\ nav'.targetLatitude = shared.waypoints[nav.currentWaypointIndex].latitude
       ]_vars

(***************************************************************************)
(* Telemetry specification: edge interrupts of the two encoders            *)
(* interleaved in every order with getPositionDelta calls and with the     *)
(* reads a telemetry caller makes: getPosition, getSpeed and getRPM.       *)
(***************************************************************************)
\* the encoder reads that are not the feed of velocity control
TelemetryReads == { "getPosition", "getSpeed", "getRPM" }

\* updatePID reading one encoder through getPositionDelta
ReadDelta ==
    \E side \in Sides :
        /\ motor.isInitialized
        /\ motor' = IF side = "L"
                    THEN [motor EXCEPT !.leftEncoder = getPositionDelta(@).enc]
                    ELSE [motor EXCEPT !.rightEncoder = getPositionDelta(@).enc]
        /\ obs' = Observe("getPositionDelta")
        /\ UNCHANGED now
        /\ OthersUnchangedByDrive

\* a caller of MotorEncoder::getPosition
ReadPosition ==
    /\ motor.isInitialized
    /\ obs.lastOp # "getPosition"
    /\ obs' = Observe("getPosition")
    /\ UNCHANGED <<now, motor>>
    /\ OthersUnchangedByDrive

\* a caller of MotorEncoder::getSpeed, or of getRPM, which calls getSpeed
ReadSpeed ==
    \E side \in Sides, op \in { "getSpeed", "getRPM" } :
        /\ motor.isInitialized
        /\ motor' = IF side = "L"
                    THEN [motor EXCEPT !.leftEncoder = getSpeed(@)]
                    ELSE [motor EXCEPT !.rightEncoder = getSpeed(@)]
        /\ obs' = Observe(op)
        /\ UNCHANGED now
        /\ OthersUnchangedByDrive

NextTelemetry ==
    \/ MCInitialize
    \/ EncoderEdge
    \/ ReadDelta
    \/ ReadPosition
    \/ ReadSpeed

SpecTelemetry == Init /\ [][NextTelemetry]_vars

(***************************************************************************)
(* C38: only getPositionDelta() (and reset()) moves the delta baseline     *)
(* used for velocity control: a call of getPosition(), getSpeed() or       *)
(* getRPM() leaves the value the next getPositionDelta() returns as it     *)
(* was, for both encoders.                                                 *)
(***************************************************************************)
C38_TelemetryReadsKeepDelta ==
    [][ obs'.lastOp \in TelemetryReads
        => \A side \in Sides :
               getPositionDelta(EncoderOf(motor', side)).delta
                   = getPositionDelta(EncoderOf(motor, side)).delta ]_vars

(***************************************************************************)
(* C39: while an obstacle remains within the threshold (0 < distance <     *)
(* 5 cm), a manual "forward" command never results in non-zero motor       *)
(* targets: after an iteration of the manual-control loop that found the   *)
(* obstacle, the task is not moving forward on non-zero wheel targets.     *)
(***************************************************************************)
C39_NoForwardIntoObstacle ==
    (/\ obs.lastOp = "ManualControlTask::run"
     /\ obs.iteration.obstacle
     /\ manual.isMoving
     /\ manual.currentDirection = "forward")
        => (motor.pidLeft.targetSpeed = 0 /\ motor.pidRight.targetSpeed = 0)

(***************************************************************************)
(* C7: when the final waypoint of an active mission is reached,            *)
(* MissionState becomes Completed and the drive is stopped (stopMotors     *)
(* called, navigation no longer active).                                   *)
(***************************************************************************)
C7_FinalWaypointCompletesMission ==
    (obs.lastOp = "NavigationTask::run"
        /\ obs.iteration.finalReached
        /\ obs.iteration.missionWas = "MISSION_ACTIVE")
    => /\ shared.roverState.missionState = "MISSION_COMPLETED"
       /\ obs.iteration.stopCalled
       /\ ~nav.isNavigating
       /\ motor.motorsStopped

(***************************************************************************)
(* Mission specification: the mission commands of the WiFi task in any     *)
(* order, with the navigation task running its loop.                       *)
(***************************************************************************)
NextMission ==
    \/ NavInitialize
    \/ NavIteration
    \/ ProcessUploadMission
    \/ ProcessStartMission
    \/ ProcessPauseMission
    \/ ProcessAbortMission
    \/ ProcessResumeMission

SpecMission == Init /\ [][NextMission]_vars

(***************************************************************************)
(* Race specification: the mission commands of the WiFi task with          *)
(* TOFTask::run taken in its two SharedData calls, getRoverState and       *)
(* setRoverState, between which the WiFi task can run (it has the priority *)
(* and the core of the TOF task, and FreeRTOS slices time between them).   *)
(***************************************************************************)
\* TOFTask::run up to and including getRoverState: the local holds a copy of
\* the whole RoverState with the new distance in it
TofGetRoverState ==
    \E mm \in RangesMM :
        /\ tof.pc = "idle"
        /\ tof' = [ pc |-> "set",
                    state |-> [shared.roverState EXCEPT !.frontObstacleDistance = mm] ]
        /\ UNCHANGED <<now, motor, nav, manual, shared, commandQueue, obs>>

\* TOFTask::run from setRoverState on: the whole RoverState is written back
TofSetRoverState ==
    /\ tof.pc = "set"
    /\ shared' = [shared EXCEPT !.roverState = tof.state]
    /\ tof' = [tof EXCEPT !.pc = "idle"]
    /\ obs' = Observe("TOFTask::run")
    /\ UNCHANGED <<now, motor, nav, manual, commandQueue>>

NextRace ==
    \/ ProcessUploadMission
    \/ ProcessStartMission
    \/ ProcessPauseMission
    \/ ProcessAbortMission
    \/ ProcessResumeMission
    \/ TofGetRoverState
    \/ TofSetRoverState

SpecRace == Init /\ [][NextRace]_vars

(***************************************************************************)
(* C25: the safety activity never mutates MissionState: however a TOF      *)
(* distance publication interleaves with the writes of MissionState by the *)
(* command intake, the publication leaves MissionState at the value last   *)
(* written by command intake or guidance.                                  *)
(***************************************************************************)
C25_RangePublicationKeepsMissionState ==
    [][ (tof.pc = "set" /\ tof'.pc = "idle")
            => shared'.roverState.missionState = shared.roverState.missionState ]_vars

(***************************************************************************)
(* C34: concurrent get-modify-set updates of different RoverState fields   *)
(* by different tasks never lose an update.  Stated for the navigating     *)
(* flag, which the command intake writes, against the write-back of the    *)
(* TOF task, which is after the obstacle distance only: the write-back     *)
(* leaves isNavigating at the value last written.                          *)
(***************************************************************************)
C34_WriteBackKeepsNavigatingFlag ==
    [][ (tof.pc = "set" /\ tof'.pc = "idle")
            => shared'.roverState.isNavigating = shared.roverState.isNavigating ]_vars

(***************************************************************************)
(* C6: after uploading N valid waypoints (1 <= N <= MAX_WAYPOINTS) and     *)
(* starting the mission, the guidance target index starts at 0 and takes   *)
(* the values 0 .. N-1 in order.  Stated for the moment the start command  *)
(* has been handled: navigation is active on index 0 and the store holds   *)
(* the N uploaded waypoints.                                               *)
(***************************************************************************)
C6_UploadedMissionIsSequenced ==
    (obs.lastOp = "start_mission" /\ obs.uploaded >= 1 /\ nav.pc = "run")
    => /\ nav.isNavigating
       /\ nav.currentWaypointIndex = 0
       /\ getWaypointCount(shared) = obs.uploaded
       /\ \A i \in 0 .. (obs.uploaded - 1) : shared.waypoints[i].isValid

(***************************************************************************)
(* C16: a mission upload that contains a malformed waypoint (missing       *)
(* lat/lon) is rejected with no state mutation: the stored waypoints, the  *)
(* mission id, the mission parameters and MissionState are all unchanged.  *)
(***************************************************************************)
C16_MalformedUploadChangesNothing ==
    [][ (obs'.lastOp = "upload_mission" /\ obs'.malformed)
        => /\ shared'.waypoints = shared.waypoints
           /\ shared'.missionId = shared.missionId
           /\ shared'.missionParams = shared.missionParams
           /\ shared'.roverState.missionState = shared.roverState.missionState ]_vars

(***************************************************************************)
(* C8: MissionState changes only along the allowed edges: Idle->Planned on *)
(* upload, Planned->Active on start/resume, Active->Paused on pause,       *)
(* Paused->Active on resume, Active->Completed when all waypoints are      *)
(* reached, any->Aborted on abort (and Aborted->Planned on a new upload);  *)
(* a pause or resume command in any other state leaves it unchanged.       *)
(***************************************************************************)
AllowedMissionEdge(from, to, op) ==
    \/ from = "MISSION_IDLE" /\ to = "MISSION_PLANNED"
          /\ op \in { "upload_mission", "start_mission" }
    \/ from = "MISSION_ABORTED" /\ to = "MISSION_PLANNED"
          /\ op \in { "upload_mission", "start_mission" }
    \/ from = "MISSION_PLANNED" /\ to = "MISSION_ACTIVE"
          /\ op \in { "start_mission", "resume_mission" }
    \/ from = "MISSION_ACTIVE" /\ to = "MISSION_PAUSED" /\ op = "pause_mission"
    \/ from = "MISSION_PAUSED" /\ to = "MISSION_ACTIVE" /\ op = "resume_mission"
    \/ from = "MISSION_ACTIVE" /\ to = "MISSION_COMPLETED" /\ op = "NavigationTask::run"
    \/ to = "MISSION_ABORTED" /\ op = "abort_mission"

C8_MissionStateFollowsAllowedEdges ==
    [][ shared'.roverState.missionState # shared.roverState.missionState
          => AllowedMissionEdge(shared.roverState.missionState,
                                shared'.roverState.missionState, obs'.lastOp) ]_vars

(***************************************************************************)
(* C9: once MissionState is Aborted it stays Aborted under any sequence of *)
(* start, resume and pause commands; only a new mission upload takes the   *)
(* mission out of Aborted.                                                 *)
(***************************************************************************)
C9_AbortedUntilNewUpload ==
    [][ (shared.roverState.missionState = "MISSION_ABORTED"
            /\ shared'.roverState.missionState # "MISSION_ABORTED")
          => obs'.lastOp \in { "upload_mission", "start_mission" } ]_vars

=============================================================================
